---- MODULE Spec2Model ----
(***************************************************************************)
(* Backend-in-a-box: the lifecycle-hook registry (app/core/hooks.py) and   *)
(* the generated CRUD handlers that call it (generator/api_gen.py).        *)
(***************************************************************************)
EXTENDS Integers, Sequences, FiniteSets, TLC

\* ------------------------------------------------------------------ bounds
\* register calls begun, over all threads
MaxRegs == 3
\* direct execute_hooks, get_hooks and list_hooks calls begun, over all threads
MaxExecs == 2
\* handler requests begun, over all threads
MaxReqs == 2
\* fields of the schema document whose fields are varied
MaxFields == 3

\* --------------------------------------------------------------- constants
BEFORE_CREATE == "before_create"
AFTER_CREATE == "after_create"
BEFORE_UPDATE == "before_update"
AFTER_UPDATE == "after_update"
BEFORE_DELETE == "before_delete"
AFTER_DELETE == "after_delete"

VALID_HOOKS ==
  {BEFORE_CREATE, AFTER_CREATE, BEFORE_UPDATE, AFTER_UPDATE, BEFORE_DELETE, AFTER_DELETE}

Threads == {"t1", "t2"}
NoThread == "none"

\* The empty dict / empty list literal.
Empty == << >>

\* ------------------------------------------------------- hook callables
\* A callable is named by a string.  What it does when called is fixed per
\* callable: return None, return a dict, return a non-dict value, or raise.
\* "partial_*" are callables without a __name__ attribute (functools.partial
\* objects, instances with __call__).
HookResult(f) ==
  CASE f = "log_only"      -> [kind |-> "none",  dict |-> Empty, val |-> "None"]
    [] f = "partial_log"   -> [kind |-> "none",  dict |-> Empty, val |-> "None"]
    [] f = "add_x"         -> [kind |-> "dict",  dict |-> ("x" :> 1), val |-> "None"]
    [] f = "add_xy"        -> [kind |-> "dict",  dict |-> ("x" :> 2) @@ ("y" :> 1), val |-> "None"]
    [] f = "soft_delete"   -> [kind |-> "value", dict |-> Empty, val |-> "False"]
    [] f = "veto_zero"     -> [kind |-> "value", dict |-> Empty, val |-> "0"]
    [] f = "touch"         -> [kind |-> "none",  dict |-> Empty, val |-> "None"]
    [] f = "allow"         -> [kind |-> "value", dict |-> Empty, val |-> "True"]
    [] f = "replace_data"  -> [kind |-> "dict",  dict |-> ("data" :> "fresh"), val |-> "None"]
    [] f = "boom"          -> [kind |-> "raise", dict |-> Empty, val |-> "KeyError"]
    [] f = "partial_boom"  -> [kind |-> "raise", dict |-> Empty, val |-> "KeyError"]
    [] OTHER               -> [kind |-> "none",  dict |-> Empty, val |-> "None"]

\* What a hook does to the entity it is handed as `instance`: soft_delete is
\* README_hooks.soft_delete_post (sets deleted_at, returns False); veto_zero sets
\* deleted_at and returns 0; touch edits the title and returns None.
HookEffect(f, item) ==
  CASE f \in {"soft_delete", "veto_zero"} -> [item EXCEPT !.deleted_at = "now"]
    [] f = "touch"                        -> [item EXCEPT !.title = "b"]
    [] OTHER                               -> item

\* What a hook does to the dict it is handed as `data`: set_title stores a title
\* in it (data["title"] = ...), the way README_hooks.validate_user_email stores
\* the lowercased email; the other callables leave it alone.
HookData(f, data) ==
  CASE f = "set_title" -> [k \in DOMAIN data \cup {"title"} |->
                             IF k = "title" THEN "t" ELSE data[k]]
    [] OTHER            -> data

\* The dict a hook builds and returns under the key `data`: replace_data returns
\* {"data": {**data, "title": ...}}, a copy of the dict it was handed with another
\* title; the dict it was handed is left as it is.
HookFresh(f, data) ==
  [k \in DOMAIN data \cup {"title"} |-> IF k = "title" THEN "r" ELSE data[k]]

\* func.__name__ exists
HasName(f) == f \notin {"partial_log", "partial_boom"}

\* ------------------------------------------------------------ the registry
\* self._hooks.get(model_name, {}).get(hook_type, [])
\* (mutation: the lookup forgets the hook type and takes any list of the model)
GetHooksAnyType(h, hook_type, model_name) ==
  IF model_name \in DOMAIN h /\ DOMAIN h[model_name] # {}
    THEN h[model_name][CHOOSE k \in DOMAIN h[model_name] : TRUE]
    ELSE Empty

HasEntry(h, hook_type, model_name) ==
  model_name \in DOMAIN h /\ hook_type \in DOMAIN h[model_name]

GetHooks(h, hook_type, model_name) ==
  IF HasEntry(h, hook_type, model_name) THEN h[model_name][hook_type] ELSE Empty

\* (mutation: keys already in the context win over the hook's)
UpdateKeepsOld(context, result) ==
  [k \in DOMAIN context \cup DOMAIN result |->
     IF k \in DOMAIN context THEN context[k] ELSE result[k]]

\* context.update(result)
Update(context, result) ==
  [k \in DOMAIN context \cup DOMAIN result |->
     IF k \in DOMAIN result THEN result[k] ELSE context[k]]

\* (mutation: the outer lookup always takes the factory path)
ModelMissingAlways(h, model_name) == TRUE

\* self._hooks[model_name] on the outer defaultdict: a missing key calls the factory
ModelMissing(h, model_name) == model_name \notin DOMAIN h

\* (mutation: the lock is taken without waiting for its holder)
LockFreeAlways(l) == TRUE

\* with self._lock: the lock can be taken only when nobody holds it
LockFree(l) == l = NoThread

VARIABLES
  hooks,    \* HookRegistry._hooks: model_name -> hook_type -> list of callables
  lock,     \* HookRegistry._lock: the thread holding it, or NoThread
  rg,       \* per thread: the frame of its register call
  ex,       \* per thread: the frame of its execute_hooks call
  regLog,   \* the finished register calls, in order of completion, with their outcome
  nRegs,    \* register calls begun
  nExecs,   \* execute_hooks, get_hooks and list_hooks calls begun
  phase     \* "registering" until the first execute_hooks call begins; then
            \* "executing" if every register call was over by then and none began
            \* since, else "mixed"
VARIABLES
  db,       \* committed rows of the entity's table: primary key -> field values
  rq,       \* per thread: the frame of the generated handler it is running
  nReqs     \* handler requests begun

VARIABLES
  gen,      \* the frame of the generate_code run: where it is and its locals
  checks,   \* the validator's checks made so far, in order
  raised,   \* the errors raised inside the run, in order
  files     \* the source units written to disk, in order

vars == <<hooks, lock, rg, ex, regLog, nRegs, nExecs, phase, db, rq, nReqs,
          gen, checks, raised, files>>

\* the state of the generation run
gvars == <<gen, checks, raised, files>>

\* the state of the running service
rvars == <<hooks, lock, rg, ex, regLog, nRegs, nExecs, phase, db, rq, nReqs>>

\* ------------------------------------------------ schema documents (AST)
\* validator.py 14-17
VALID_TYPES ==
  {"string", "integer", "float", "boolean", "datetime", "date", "time",
   "uuid", "text", "json", "binary"}

\* validator.py 19
VALID_RELATION_TYPES == {"one_to_many", "many_to_one", "many_to_many"}

\* A key that a document leaves out where the parser's record type has no default
\* for it (FieldDefinition.type, RelationDefinition.target).
Absent == "<absent>"

\* parser.py 8-18: one entry of a document's `fields` mapping, under its name.
\* unique, index and default keep their defaults (False, None) in every document
\* used here; max_length 0 stands for None.
Field(name, type, primary, required, nullable, max_length) ==
  [name |-> name, type |-> type, primary |-> primary, required |-> required,
   nullable |-> nullable, max_length |-> max_length]

\* parser.py 21-26: one entry of a document's `relations` list
Relation(type, target) == [type |-> type, target |-> target]

\* parser.py 29-36: a document that SchemaDefinition(**data) accepts (ok), or one
\* it rejects (a missing or ill-typed top-level key)
Schema(name, table, fields, relations, soft_delete, timestamps) ==
  [ok |-> TRUE, name |-> name, table |-> table, fields |-> fields,
   relations |-> relations, soft_delete |-> soft_delete, timestamps |-> timestamps]

Malformed ==
  [ok |-> FALSE, name |-> "", table |-> "", fields |-> Empty, relations |-> Empty,
   soft_delete |-> FALSE, timestamps |-> TRUE]

\* The frame of one generate_code run.  schema_dir is the directory's documents
\* in glob order; parsed is parse_all's local list; schemas, field_map and
\* relation_map are generate_code's locals (unassigned: empty); s, part, k say
\* which step comes next: the document, schema, field or relation it is at.
\* again holds what generate_model and generate_router returned when they were
\* called once more after the run, per schema; field_code the fields that
\* _generate_field_code was called on by itself, each with the line it returned.
IdleGen ==
  [pc |-> "idle", schema_dir |-> Empty, parsed |-> Empty, schemas |-> Empty,
   field_map |-> Empty, relation_map |-> Empty, s |-> 0, part |-> "", k |-> 0,
   again |-> Empty, field_code |-> Empty]

\* the entity the generated router serves
Entity == "Post"

NoItem == [title |-> "", content |-> "", deleted_at |-> ""]

\* A handler frame.  item is the session's object for the loaded row (what hooks
\* mutate), loaded the row as it was read, instance_data the snapshot of line
\* 200, status the response ("200", "204", "404", "422", or "error" when a hook's
\* error left the handler), events what the handler has done so far, before the
\* hooks the before_delete or before_update chain invoked.  update_data and
\* old_data are the update handler's locals, queries the (offset, limit) queries
\* the list handler sent to storage, result what the handler returned, db0 the
\* stored rows when the request came in, skip and limit the query parameters of
\* a list request.  data is the create handler's local dict, fresh the dict a
\* hook built and returned as a replacement `data` entry, error the error that
\* left the handler, trace the hooks invoked for the request and its commits,
\* in the order they happened.
IdleReq ==
  [pc |-> "idle", op |-> "", id |-> 0, item |-> NoItem, loaded |-> NoItem,
   instance_data |-> NoItem, status |-> "none", events |-> Empty, before |-> Empty,
   update_data |-> Empty, old_data |-> NoItem, queries |-> Empty, result |-> Empty,
   db0 |-> Empty, skip |-> 0, limit |-> 0,
   data |-> Empty, fresh |-> Empty, error |-> "None", trace |-> Empty]

IdleReg == [pc |-> "idle", hook_type |-> "", model_name |-> "", func |-> ""]

\* A call frame of execute_hooks, get_hooks or list_hooks (op).  rkind says how the call
\* ended: "context" (ret is the returned context), "value" (rval is the returned
\* non-dict value), "error" (rval is the error raised), "hooks" (got is the list
\* get_hooks returned), "names" (names is what list_hooks returned).
\* ctx0, start and regAtStart record the call's arguments and what was registered
\* for its key when it began.
IdleExec ==
  [pc |-> "idle", op |-> "", hook_type |-> "", model_name |-> "", ctx0 |-> Empty, context |-> Empty,
   live |-> FALSE, start |-> Empty, regAtStart |-> Empty, i |-> 0, invoked |-> Empty,
   rkind |-> "none", rval |-> "None", ret |-> Empty, got |-> Empty, names |-> Empty]

Init ==
  /\ hooks = Empty
  /\ lock = NoThread
  /\ rg = [t \in Threads |-> IdleReg]
  /\ ex = [t \in Threads |-> IdleExec]
  /\ regLog = Empty
  /\ nRegs = 0
  /\ nExecs = 0
  /\ phase = "registering"
  /\ db = (1 :> [title |-> "a", content |-> "x", deleted_at |-> "null"])
  /\ rq = [t \in Threads |-> IdleReq]
  /\ nReqs = 0
  /\ gen = IdleGen
  /\ checks = Empty
  /\ raised = Empty
  /\ files = Empty

Free(t) ==
  /\ rg[t].pc = "idle"
  /\ ex[t].pc \in {"idle", "done"}
  /\ rq[t].pc \in {"idle", "done"}

\* ------------------------------------------------------------- register
\* hooks.py 40-41: the event name is checked before the lock is taken.  (The
\* thread's frame of an earlier, finished call is dropped.)
RegisterBegin(t, hook_type, model_name, func) ==
  /\ Free(t)
  /\ nRegs < MaxRegs
  /\ nRegs' = nRegs + 1
  /\ phase' = IF phase = "registering" THEN phase ELSE "mixed"
  /\ IF hook_type \notin VALID_HOOKS
       THEN /\ rg' = rg
            /\ regLog' = Append(regLog,
                 [thread |-> t, hook_type |-> hook_type, model_name |-> model_name,
                  func |-> func, outcome |-> "ValueError"])
       ELSE /\ rg' = [rg EXCEPT ![t] = [pc |-> "acquire", hook_type |-> hook_type,
                                        model_name |-> model_name, func |-> func]]
            /\ regLog' = regLog
  /\ ex' = [ex EXCEPT ![t] = IdleExec]
  /\ UNCHANGED <<gvars, db, rq, nReqs, hooks, lock, nExecs>>

\* hooks.py 43: with self._lock
RegisterAcquire(t) ==
  /\ rg[t].pc = "acquire"
  /\ LockFree(lock)
  /\ lock' = t
  /\ rg' = [rg EXCEPT ![t].pc = "getmodel"]
  /\ UNCHANGED <<gvars, db, rq, nReqs, hooks, ex, regLog, nRegs, nExecs, phase>>

\* hooks.py 44: self._hooks[model_name] -- lookup; a miss enters the
\* defaultdict's factory (the lambda of line 29)
RegisterGetModel(t) ==
  /\ rg[t].pc = "getmodel"
  /\ rg' = [rg EXCEPT ![t].pc =
              IF ModelMissing(hooks, rg[t].model_name) THEN "setmodel" ELSE "gettype"]
  /\ UNCHANGED <<gvars, db, rq, nReqs, hooks, lock, ex, regLog, nRegs, nExecs, phase>>

\* hooks.py 29/44: the factory's fresh inner defaultdict is stored under model_name
RegisterSetModel(t) ==
  /\ rg[t].pc = "setmodel"
  /\ hooks' = [m \in DOMAIN hooks \cup {rg[t].model_name} |->
                 IF m = rg[t].model_name THEN Empty ELSE hooks[m]]
  /\ rg' = [rg EXCEPT ![t].pc = "gettype"]
  /\ UNCHANGED <<gvars, db, rq, nReqs, lock, ex, regLog, nRegs, nExecs, phase>>

\* hooks.py 44: [hook_type] on the inner defaultdict(list): a miss stores []
RegisterGetType(t) ==
  /\ rg[t].pc = "gettype"
  /\ LET m == rg[t].model_name
         ht == rg[t].hook_type
     IN hooks' = IF HasEntry(hooks, ht, m) THEN hooks
                 ELSE [hooks EXCEPT ![m] =
                         [k \in DOMAIN hooks[m] \cup {ht} |->
                            IF k = ht THEN Empty ELSE hooks[m][k]]]
  /\ rg' = [rg EXCEPT ![t].pc = "append"]
  /\ UNCHANGED <<gvars, db, rq, nReqs, lock, ex, regLog, nRegs, nExecs, phase>>

\* hooks.py 44: .append(func) on the list obtained by RegisterGetType.  When that
\* list is no longer the registry's (unreachable while the lock is honoured), the
\* append lands on an orphaned list.
RegisterAppend(t) ==
  /\ rg[t].pc = "append"
  /\ LET m == rg[t].model_name
         ht == rg[t].hook_type
     IN hooks' = IF HasEntry(hooks, ht, m)
                 THEN [hooks EXCEPT ![m][ht] = Append(@, rg[t].func)]
                 ELSE hooks
  /\ rg' = [rg EXCEPT ![t].pc = "log"]
  /\ UNCHANGED <<gvars, db, rq, nReqs, lock, ex, regLog, nRegs, nExecs, phase>>

\* hooks.py 45: logger.info(f"... {func.__name__}") evaluates func.__name__, then
\* the with block is left (normally or by the AttributeError) and releases the lock
RegisterLog(t) ==
  /\ rg[t].pc = "log"
  /\ regLog' = Append(regLog,
       [thread |-> t, hook_type |-> rg[t].hook_type, model_name |-> rg[t].model_name,
        func |-> rg[t].func,
        outcome |-> IF HasName(rg[t].func) THEN "ok" ELSE "AttributeError"])
  /\ lock' = NoThread
  /\ rg' = [rg EXCEPT ![t] = IdleReg]
  /\ UNCHANGED <<gvars, db, rq, nReqs, hooks, ex, nRegs, nExecs, phase>>

\* The callables of the register calls for a key that got as far as the append
\* (all but those refused with ValueError), in order of completion.
FuncsOf(calls) == [n \in 1..Len(calls) |-> calls[n].func]

Registered(log, hook_type, model_name) ==
  LET Appended(r) == /\ r.hook_type = hook_type /\ r.model_name = model_name
                     /\ r.outcome # "ValueError"
  IN FuncsOf(SelectSeq(log, Appended))

\* --------------------------------------------------------- execute_hooks
\* hooks.py 70: hooks = self.get_hooks(hook_type, model_name).  The value is the
\* registry's own list object when the key has one (live), else a fresh [].
EnterExec(hook_type, model_name, context) ==
  [IdleExec EXCEPT !.pc = "test", !.op = "execute_hooks", !.hook_type = hook_type, !.model_name = model_name,
                   !.ctx0 = context, !.context = context,
                   !.live = HasEntry(hooks, hook_type, model_name),
                   !.start = GetHooks(hooks, hook_type, model_name),
                   !.regAtStart = Registered(regLog, hook_type, model_name)]

\* (mutation: the loop walks a copy of the list made when the call began)
HookListAtStart(e) == e.start

\* the list object the frame iterates, as it is now
HookList(e) == IF e.live THEN GetHooks(hooks, e.hook_type, e.model_name) ELSE Empty

PhaseOnExec ==
  IF phase = "executing" \/ (phase = "registering" /\ \A u \in Threads : rg[u].pc = "idle")
    THEN "executing" ELSE "mixed"

ExecuteHooks(t, hook_type, model_name, context) ==
  /\ Free(t)
  /\ nExecs < MaxExecs
  /\ nExecs' = nExecs + 1
  /\ ex' = [ex EXCEPT ![t] = EnterExec(hook_type, model_name, context)]
  /\ phase' = PhaseOnExec
  /\ UNCHANGED <<gvars, db, rq, nReqs, hooks, lock, rg, regLog, nRegs>>

\* (mutation: the early return hands back an empty dict, not the context)
ExecTestFrameEmpty(e) ==
  IF HookList(e) = Empty
    THEN [e EXCEPT !.pc = "done", !.rkind = "context", !.ret = Empty]
    ELSE [e EXCEPT !.pc = "loop"]

\* hooks.py 72-73: if not hooks: return context
ExecTestFrame(e) ==
  IF HookList(e) = Empty
    THEN [e EXCEPT !.pc = "done", !.rkind = "context", !.ret = e.context]
    ELSE [e EXCEPT !.pc = "loop"]

ExecTest(t) ==
  /\ ex[t].pc = "test"
  /\ ex' = [ex EXCEPT ![t] = ExecTestFrame(ex[t])]
  /\ UNCHANGED <<gvars, db, rq, nReqs, hooks, lock, rg, regLog, nRegs, nExecs, phase>>

\* (mutation: a non-dict result is dropped like None and the loop goes on)
ShortCircuitIgnored(e, r) == [e EXCEPT !.i = e.i + 1]

\* hooks.py 86: return result
ShortCircuit(e, r) == [e EXCEPT !.pc = "done", !.rkind = "value", !.rval = r.val]

\* (mutation: the except clause logs the error and the loop goes on)
RaisedSwallowed(e, f, r) == [e EXCEPT !.i = e.i + 1]

\* hooks.py 87-89: the except clause formats hook.__name__ into the log line and
\* re-raises; a callable without __name__ makes the log line itself raise
Raised(e, f, r) ==
  [e EXCEPT !.pc = "done", !.rkind = "error",
            !.rval = IF HasName(f) THEN r.val ELSE "AttributeError"]

\* hooks.py 81-83: a dict result is merged into the context
Merged(e, r) == [e EXCEPT !.context = Update(e.context, r.dict), !.i = e.i + 1]

\* hooks.py 79: hook(**context) runs the hook's body; a hook handed the entity as
\* `instance` may set attributes on it (HookEffect)
\* hooks.py 77-91: one turn of `for hook in hooks`: the list iterator looks at the
\* list as it is now; past its end the loop is over and the context is returned
\* (mutation: the loop stops one hook early)
InvokingButLast(e) == e.i + 1 < Len(HookList(e))

\* hooks.py 77: the list iterator has a next element
Invoking(e) == e.i < Len(HookList(e))

ExecStepFrame(e) ==
  IF Invoking(e)
    THEN LET f == HookList(e)[e.i + 1]
             r == HookResult(f)
             c == [e EXCEPT !.invoked = Append(@, [func |-> f, context |-> e.context])]
         IN CASE r.kind = "raise" -> Raised(c, f, r)
              [] r.kind = "dict"  -> Merged(c, r)
              [] r.kind = "value" -> ShortCircuit(c, r)
              [] OTHER            -> [c EXCEPT !.i = e.i + 1]
    ELSE [e EXCEPT !.pc = "done", !.rkind = "context", !.ret = e.context]

\* The dict object a `data` entry of the context refers to: the update handler's
\* update_data, the create handler's data, or the dict a hook returned.
Deref(r, h) ==
  CASE h = "update_data" -> r.update_data
    [] h = "data"        -> r.data
    [] h = "fresh"       -> r.fresh
    [] OTHER             -> Empty

\* the frame after the dict that h refers to has been edited to d
Store(r, h, d) ==
  CASE h = "update_data" -> [r EXCEPT !.update_data = d]
    [] h = "data"        -> [r EXCEPT !.data = d]
    [] h = "fresh"       -> [r EXCEPT !.fresh = d]
    [] OTHER             -> r

\* hooks.py 79: what the body of hook f, called with **context by the handler
\* whose frame is r, does to the objects the context refers to: the entity
\* handed as `instance` (HookEffect), the dict handed as `data` (HookData), and
\* the dict it builds to return (HookFresh)
HookOnFrame(f, hook_type, context, r) ==
  LET r1 == IF "instance" \in DOMAIN context THEN [r EXCEPT !.item = HookEffect(f, @)] ELSE r
      r2 == IF "data" \in DOMAIN context
              THEN Store(r1, context["data"], HookData(f, Deref(r1, context["data"])))
              ELSE r1
      r3 == IF "data" \in DOMAIN context /\ f = "replace_data"
              THEN [r2 EXCEPT !.fresh = HookFresh(f, Deref(r1, context["data"]))]
              ELSE r2
  IN IF r.pc \in {"idle", "done"} THEN r3
     ELSE [r3 EXCEPT !.trace = Append(@, [hook_type |-> hook_type, func |-> f])]

ExecStep(t) ==
  /\ ex[t].pc = "loop"
  /\ ex' = [ex EXCEPT ![t] = ExecStepFrame(ex[t])]
  /\ rq' = [rq EXCEPT ![t] =
              IF Invoking(ex[t])
                THEN HookOnFrame(HookList(ex[t])[ex[t].i + 1], ex[t].hook_type,
                                 ex[t].context, @)
                ELSE @]
  /\ UNCHANGED <<gvars, db, nReqs, hooks, lock, rg, regLog, nRegs, nExecs, phase>>

\* ------------------------------------------------- get_hooks, list_hooks
\* hooks.py 47-57, called directly
GetHooksCall(t, hook_type, model_name) ==
  /\ Free(t)
  /\ nExecs < MaxExecs
  /\ nExecs' = nExecs + 1
  /\ ex' = [ex EXCEPT ![t] =
       [IdleExec EXCEPT !.pc = "done", !.op = "get_hooks", !.hook_type = hook_type, !.model_name = model_name,
                        !.rkind = "hooks", !.got = GetHooks(hooks, hook_type, model_name)]]
  /\ UNCHANGED <<gvars, db, rq, nReqs, hooks, lock, rg, regLog, nRegs, phase>>

\* hooks.py 99-104: every callable's __name__, per model and hook type
AllNamed(h) ==
  \A m \in DOMAIN h : \A k \in DOMAIN h[m] : \A n \in 1..Len(h[m][k]) : HasName(h[m][k][n])

ListHooks(t) ==
  /\ Free(t)
  /\ nExecs < MaxExecs
  /\ nExecs' = nExecs + 1
  /\ ex' = [ex EXCEPT ![t] =
       IF AllNamed(hooks)
         THEN [IdleExec EXCEPT !.pc = "done", !.op = "list_hooks", !.rkind = "names",
                               !.names = hooks]
         ELSE [IdleExec EXCEPT !.pc = "done", !.op = "list_hooks", !.rkind = "error",
                               !.rval = "AttributeError"]]
  /\ UNCHANGED <<gvars, db, rq, nReqs, hooks, lock, rg, regLog, nRegs, phase>>

\* ---------------------------------------- generated handlers: delete
\* (mutation: the commit of the abort path is missing)
CommitNothing(d, id, item) == d

\* db.commit() with the session's object dirty: its attributes are written to its row
Commit(d, id, item) == [d EXCEPT ![id] = item]

\* one entry of a frame's trace: a commit
Committed == [hook_type |-> "commit", func |-> ""]

\* (mutation: what the hooks set on the object is written to its row although
\* the handler was left before its commit)
LeftFlushes(d, id, item) == IF id \in DOMAIN d THEN [d EXCEPT ![id] = item] ELSE d

\* api_gen.py 115, 167, 192: execute_hooks raises and the handler is left before
\* it reaches db.commit(): the session's pending changes are not stored
Left(d, id, item) == d

\* db.delete(item); db.commit(): the row is gone
CommitDelete(d, id) == [i \in DOMAIN d \ {id} |-> d[i]]

\* api_gen.py 194: should_delete is False
IsFalse(e) == e.rkind = "value" /\ e.rval = "False"

\* (mutation: the snapshot is the row as it was loaded)
SnapshotLoaded(r) == r.loaded

\* api_gen.py 200: the object's public attributes as they are now
Snapshot(r) == r.item

\* db.query(Model).filter(Model.pk == pk).first(): the row, or None
Lookup(d, id) == IF id \in DOMAIN d THEN d[id] ELSE NoItem

\* (mutation: the not-found test is missing)
MissingNever(item) == FALSE

\* api_gen.py 146, 159, 188: if not item
Missing(item) == item = NoItem

\* api_gen.py 187-192: the row is looked up; when there is none the request ends
\* with 404, else the before_delete chain is started with instance=item
DeleteBegin(t, id) ==
  /\ Free(t)
  /\ nReqs < MaxReqs
  /\ nReqs' = nReqs + 1
  /\ IF Missing(Lookup(db, id))
       THEN /\ rq' = [rq EXCEPT ![t] =
                 [IdleReq EXCEPT !.pc = "done", !.op = "delete", !.id = id, !.status = "404",
                                 !.db0 = db]]
            /\ ex' = [ex EXCEPT ![t] = IdleExec]
            /\ phase' = phase
       ELSE /\ rq' = [rq EXCEPT ![t] =
                 [IdleReq EXCEPT !.pc = "before", !.op = "delete", !.id = id,
                                 !.item = Lookup(db, id), !.loaded = Lookup(db, id),
                                 !.db0 = db]]
            /\ ex' = [ex EXCEPT ![t] = EnterExec(BEFORE_DELETE, Entity, ("instance" :> id))]
            /\ phase' = PhaseOnExec
  /\ UNCHANGED <<gvars, db, hooks, lock, rg, regLog, nRegs, nExecs>>

\* api_gen.py 192-200: the chain is over.  An error leaves the handler; False
\* commits what the hooks did to the object and ends the request; anything else
\* goes on to the snapshot
DeleteDecide(t) ==
  /\ rq[t].op = "delete" /\ rq[t].pc = "before"
  /\ ex[t].pc = "done"
  /\ LET r == [rq[t] EXCEPT !.before = [k \in 1..Len(ex[t].invoked) |-> ex[t].invoked[k].func]]
     IN CASE ex[t].rkind = "error" ->
               /\ rq' = [rq EXCEPT ![t] = [r EXCEPT !.pc = "done", !.status = "error",
                                                    !.error = ex[t].rval]]
               /\ db' = Left(db, r.id, r.item)
          [] IsFalse(ex[t]) ->
               /\ rq' = [rq EXCEPT ![t] = [r EXCEPT !.pc = "done", !.status = "204",
                                                    !.events = Append(@, "commit"),
                                                    !.trace = Append(@, Committed)]]
               /\ db' = Commit(db, r.id, r.item)
          [] OTHER ->
               /\ rq' = [rq EXCEPT ![t] = [r EXCEPT !.pc = "remove",
                                                    !.instance_data = Snapshot(r)]]
               /\ db' = db
  /\ UNCHANGED <<gvars, hooks, lock, rg, ex, regLog, nRegs, nExecs, phase, nReqs>>

\* api_gen.py 202-203: db.delete(item); db.commit()
DeleteRemove(t) ==
  /\ rq[t].op = "delete" /\ rq[t].pc = "remove"
  /\ db' = CommitDelete(db, rq[t].id)
  /\ rq' = [rq EXCEPT ![t].pc = "call_after", ![t].events = Append(@, "removed"),
                       ![t].trace = Append(@, Committed)]
  /\ UNCHANGED <<gvars, hooks, lock, rg, ex, regLog, nRegs, nExecs, phase, nReqs>>

\* api_gen.py 206: the after_delete chain is started with the snapshot
DeleteCallAfter(t) ==
  /\ rq[t].op = "delete" /\ rq[t].pc = "call_after"
  /\ ex' = [ex EXCEPT ![t] =
       EnterExec(AFTER_DELETE, Entity, ("instance_data" :> rq[t].instance_data))]
  /\ rq' = [rq EXCEPT ![t].pc = "after", ![t].events = Append(@, "after_delete")]
  /\ phase' = PhaseOnExec
  /\ UNCHANGED <<gvars, db, hooks, lock, rg, regLog, nRegs, nExecs, nReqs>>

\* api_gen.py 206-208: the chain's return value is dropped; its error leaves the
\* handler
DeleteEnd(t) ==
  /\ rq[t].op = "delete" /\ rq[t].pc = "after"
  /\ ex[t].pc = "done"
  /\ rq' = [rq EXCEPT ![t].pc = "done",
                       ![t].status = IF ex[t].rkind = "error" THEN "error" ELSE "204",
                       ![t].error = IF ex[t].rkind = "error" THEN ex[t].rval ELSE "None"]
  /\ UNCHANGED <<gvars, db, hooks, lock, rg, ex, regLog, nRegs, nExecs, phase, nReqs>>

\* ------------------------------------------------------ input sets
Models == {"User", "Post"}

\* register calls tried by the sequential caller: one key with every kind of
\* callable, a key of another event, a key of another entity, an unknown event
RegInputs ==
  ({BEFORE_DELETE} \X {"Post"} \X
     {"log_only", "add_x", "add_xy", "soft_delete", "boom", "partial_boom"})
  \cup {<<AFTER_DELETE, "Post", "add_x">>, <<BEFORE_DELETE, "User", "add_xy">>,
        <<"on_create", "Post", "log_only">>}

\* execute_hooks calls tried: the busy key with and without a context, a key of
\* another event, a key nothing is registered for, an event outside the six
ExecInputs ==
  {<<BEFORE_DELETE, "Post", Empty>>, <<BEFORE_DELETE, "Post", ("x" :> 0)>>,
   <<AFTER_DELETE, "Post", ("x" :> 0)>>, <<AFTER_CREATE, "User", ("x" :> 0)>>,
   <<"on_create", "Post", ("x" :> 0)>>}

GetInputs == {<<BEFORE_DELETE, "Post">>, <<"on_create", "Ghost">>}

RegisterStep(t) ==
  \/ RegisterAcquire(t)
  \/ RegisterGetModel(t)
  \/ RegisterSetModel(t)
  \/ RegisterGetType(t)
  \/ RegisterAppend(t)
  \/ RegisterLog(t)

Next ==
  \E t \in {"t1"} :
    \/ \E a \in RegInputs : RegisterBegin(t, a[1], a[2], a[3])
    \/ RegisterStep(t)
    \/ \E a \in ExecInputs : ExecuteHooks(t, a[1], a[2], a[3])
    \/ \E k \in GetInputs : GetHooksCall(t, k[1], k[2])
    \/ ListHooks(t)
    \/ ExecTest(t)
    \/ ExecStep(t)

Spec == Init /\ [][Next]_vars

\* Two threads registering and executing at once, on fewer keys and callables.
RegInputsConc ==
  {<<BEFORE_DELETE, "Post", "soft_delete">>, <<BEFORE_DELETE, "Post", "partial_log">>,
   <<BEFORE_DELETE, "Post", "add_x">>, <<AFTER_DELETE, "Post", "log_only">>}

ExecInputsConc == {<<BEFORE_DELETE, "Post", ("x" :> 0)>>}

NextConc ==
  \E t \in Threads :
    \/ \E a \in RegInputsConc : RegisterBegin(t, a[1], a[2], a[3])
    \/ RegisterStep(t)
    \/ \E a \in ExecInputsConc : ExecuteHooks(t, a[1], a[2], a[3])
    \/ ExecTest(t)
    \/ ExecStep(t)

SpecConc == Init /\ [][NextConc]_vars

\* One caller registering hooks for the entity and sending delete requests.
RegInputsDelete ==
  ({BEFORE_DELETE} \X {Entity} \X
     {"touch", "add_x", "soft_delete", "veto_zero", "allow", "boom"})
  \cup {<<AFTER_DELETE, Entity, "log_only">>}

RequestIds == {1, 2}

NextDelete ==
  \E t \in {"t1"} :
    \/ \E a \in RegInputsDelete : RegisterBegin(t, a[1], a[2], a[3])
    \/ RegisterStep(t)
    \/ \E id \in RequestIds : DeleteBegin(t, id)
    \/ ExecTest(t)
    \/ ExecStep(t)
    \/ DeleteDecide(t)
    \/ DeleteRemove(t)
    \/ DeleteCallAfter(t)
    \/ DeleteEnd(t)

SpecDelete == Init /\ [][NextDelete]_vars

\* ============================================== the generation pipeline
\* ---------------------------------------------------------------- parser
\* parser.py 46-51: parse_file raises when SchemaDefinition(**data) rejects
\* the document
ParseFileRaises(doc) == ~doc.ok

\* parser.py 60-70: FieldDefinition(name=..., **config) raises when a field has
\* no type
GetFieldDefinitionsRaises(schema) ==
  \E n \in 1..Len(schema.fields) : schema.fields[n].type = Absent

\* parser.py 72-74: RelationDefinition(**rel) raises when a relation has no type
\* or no target
GetRelationsRaises(schema) ==
  \E n \in 1..Len(schema.relations) :
    schema.relations[n].type = Absent \/ schema.relations[n].target = Absent

\* dict assignment d[key] = value
Put(d, key, value) == [x \in DOMAIN d \cup {key} |-> IF x = key THEN value ELSE d[x]]

\* ------------------------------------------------------------- validator
\* What a ValidationError's message names: the parts its f-string formats.
ValidationError(kind, schema, field, type, names, target) ==
  [kind |-> kind, schema |-> schema, field |-> field, type |-> type,
   names |-> names, target |-> target]

\* validator.py 27
FieldTypeValid(field) == field.type \in VALID_TYPES

\* validator.py 28-31
InvalidFieldType(field) ==
  ValidationError("invalid_field_type", "", field.name, field.type, Empty, "")

\* validator.py 46
RequiredNullable(field) == field.required /\ field.nullable /\ ~field.primary

\* validator.py 47-49
RequiredNullableError(field) ==
  ValidationError("required_nullable", "", field.name, "", Empty, "")

\* validator.py 35
PrimaryKeys(fields) == SelectSeq(fields, LAMBDA f : f.primary)

FieldNames(fields) == [n \in 1..Len(fields) |-> fields[n].name]

\* validator.py 37
NoPrimaryKey(schema) == ValidationError("no_primary_key", schema.name, "", "", Empty, "")

\* (mutation: the message names only the first of the primary keys)
MultiplePrimaryKeysFirstOnly(schema, primary_keys) ==
  ValidationError("multiple_primary_keys", schema.name, "", "",
                  <<primary_keys[1].name>>, "")

\* validator.py 39-42
MultiplePrimaryKeys(schema, primary_keys) ==
  ValidationError("multiple_primary_keys", schema.name, "", "",
                  FieldNames(primary_keys), "")

\* validator.py 55
RelationTypeValid(relation) == relation.type \in VALID_RELATION_TYPES

\* validator.py 56-59
InvalidRelationType(schema, relation) ==
  ValidationError("invalid_relation_type", schema.name, "", relation.type, Empty, "")

\* validator.py 61-62, 94: `not target` / `target and ...`: a missing or empty
\* target is falsy
Truthy(target) == target \notin {"", Absent}

\* validator.py 63-65
MissingTarget(schema) == ValidationError("missing_target", schema.name, "", "", Empty, "")

\* (mutation: only the schemas defined earlier in the list are known)
TargetKnownBefore(schemas, s, target) ==
  \E n \in 1..(s - 1) : schemas[n].name = target

\* validator.py 83, 94: self.schemas = {s.name: s for s in schemas};
\* target in self.schemas.  s is the place of the schema holding the relation.
TargetKnown(schemas, s, target) ==
  \E n \in 1..Len(schemas) : schemas[n].name = target

\* validator.py 95-97
DanglingTarget(schema, target) ==
  ValidationError("dangling_target", schema.name, "", "", Empty, target)

\* ------------------------------------------------------- model generator
\* model_gen.py 10-22
TYPE_MAPPING ==
  [t \in VALID_TYPES |->
     CASE t = "string"   -> "String"
       [] t = "integer"  -> "Integer"
       [] t = "float"    -> "Float"
       [] t = "boolean"  -> "Boolean"
       [] t = "datetime" -> "DateTime"
       [] t = "date"     -> "Date"
       [] t = "time"     -> "Time"
       [] t = "uuid"     -> "UUID"
       [] t = "text"     -> "Text"
       [] t = "json"     -> "JSON"
       [] t = "binary"   -> "LargeBinary"]

\* (mutation: the length of a string field is dropped)
GetSqlalchemyTypeNoLength(field) ==
  [base |-> IF field.type \in DOMAIN TYPE_MAPPING THEN TYPE_MAPPING[field.type]
            ELSE "String",
   length |-> 0]

\* model_gen.py 29-36: the column type, with its length when it has one
GetSqlalchemyType(field) ==
  LET sa_type == IF field.type \in DOMAIN TYPE_MAPPING THEN TYPE_MAPPING[field.type]
                 ELSE "String"
  IN IF field.type = "string" /\ field.max_length # 0
       THEN [base |-> "String", length |-> field.max_length]
       ELSE [base |-> sa_type, length |-> 0]

\* One line of a rendered class body.
Line(kind, name, type, args) == [kind |-> kind, name |-> name, type |-> type, args |-> args]

NoType == [base |-> "", length |-> 0]

\* model_gen.py 38-62 (unique, index and default are unset in every field used)
GenerateFieldCode(field) ==
  Line("field", field.name, GetSqlalchemyType(field),
       (IF field.primary THEN <<"primary_key=True">> ELSE Empty)
       \o (IF field.primary /\ field.type = "uuid" THEN <<"default=uuid.uuid4">> ELSE Empty)
       \o (IF ~field.nullable THEN <<"nullable=False">> ELSE Empty))

\* model_gen.py 64-85: the line or lines of one relation; an unknown type
\* renders an empty line
GenerateRelationCode(relation, schema_name) ==
  CASE relation.type = "one_to_many" ->
         <<Line("relationship", relation.target, NoType, <<"one_to_many">>)>>
    [] relation.type = "many_to_one" ->
         <<Line("foreign_key", relation.target, NoType, Empty),
           Line("relationship", relation.target, NoType, <<"many_to_one">>)>>
    [] relation.type = "many_to_many" ->
         <<Line("relationship", relation.target, NoType, <<"many_to_many", schema_name>>)>>
    [] OTHER -> <<Line("blank", "", NoType, Empty)>>

\* model_gen.py 102-106
TimestampFields(schema) ==
  IF schema.timestamps
    THEN <<Line("created_at", "created_at", [base |-> "DateTime", length |-> 0],
                <<"default=datetime.utcnow", "nullable=False">>),
           Line("updated_at", "updated_at", [base |-> "DateTime", length |-> 0],
                <<"default=datetime.utcnow", "onupdate=datetime.utcnow", "nullable=False">>)>>
    ELSE Empty

\* model_gen.py 109-111
SoftDeleteField(schema) ==
  IF schema.soft_delete
    THEN <<Line("deleted_at", "deleted_at", [base |-> "DateTime", length |-> 0],
                <<"nullable=True">>)>>
    ELSE Empty

RECURSIVE Flatten(_)
Flatten(ss) == IF ss = Empty THEN Empty ELSE Head(ss) \o Flatten(Tail(ss))

\* (mutation: the soft-delete marker is put before the timestamps)
ClassBodySoftDeleteFirst(field_lines, timestamp_fields, soft_delete_field, relation_lines) ==
  field_lines \o soft_delete_field \o timestamp_fields \o relation_lines

\* model_gen.py 117-119
ClassBody(field_lines, timestamp_fields, soft_delete_field, relation_lines) ==
  field_lines \o timestamp_fields \o soft_delete_field \o relation_lines

\* (mutation: the fields are emitted last to first)
FieldLinesReversed(fields) ==
  [n \in 1..Len(fields) |-> GenerateFieldCode(fields[Len(fields) + 1 - n])]

\* model_gen.py 98: [self._generate_field_code(field) for field in fields]
FieldLines(fields) == [n \in 1..Len(fields) |-> GenerateFieldCode(fields[n])]

\* model_gen.py 87-132: the class body of the rendered entity declaration
GenerateModel(schema, fields, relations) ==
  ClassBody(FieldLines(fields),
            TimestampFields(schema),
            SoftDeleteField(schema),
            Flatten([n \in 1..Len(relations) |->
                       GenerateRelationCode(relations[n], schema.name)]))

\* --------------------------------------------------------- API generator
\* api_gen.py 14-33: the type hint; none says whether it ends in "| None"
GetPythonType(field) ==
  LET type_map == [t \in VALID_TYPES |->
        CASE t = "string"   -> "str"
          [] t = "integer"  -> "int"
          [] t = "float"    -> "float"
          [] t = "boolean"  -> "bool"
          [] t = "datetime" -> "datetime"
          [] t = "date"     -> "date"
          [] t = "time"     -> "time"
          [] t = "uuid"     -> "UUID"
          [] t = "text"     -> "str"
          [] t = "json"     -> "dict"
          [] t = "binary"   -> "bytes"]
  IN [base |-> IF field.type \in DOMAIN type_map THEN type_map[field.type] ELSE "str",
      none |-> field.nullable /\ ~field.primary]

\* (mutation: the primary key is not skipped)
SkippedNever(schema_type, field) == FALSE

\* api_gen.py 40-41
Skipped(schema_type, field) == schema_type = "Create" /\ field.primary

\* (mutation: the Update type is rendered like the others)
AllOptionalNever(schema_type) == FALSE

\* api_gen.py 46
AllOptional(schema_type) == schema_type = "Update"

\* api_gen.py 43-54: the line of one field: its name, its type hint and whether
\* it has the default " = None"
PydanticField(schema_type, field) ==
  LET python_type == GetPythonType(field)
  IN IF AllOptional(schema_type)
       THEN [name |-> field.name, type |-> [python_type EXCEPT !.none = TRUE],
             default |-> " = None"]
       ELSE [name |-> field.name, type |-> python_type,
             default |-> IF ~field.required /\ ~field.primary THEN " = None" ELSE ""]

\* api_gen.py 39-54: the loop over the fields, from field n on
RECURSIVE PydanticFieldLines(_, _, _)
PydanticFieldLines(schema_type, fields, n) ==
  IF n > Len(fields) THEN Empty
  ELSE IF Skipped(schema_type, fields[n])
         THEN PydanticFieldLines(schema_type, fields, n + 1)
         ELSE <<PydanticField(schema_type, fields[n])>>
              \o PydanticFieldLines(schema_type, fields, n + 1)

\* api_gen.py 35-69
GeneratePydanticSchema(schema, fields, schema_type) ==
  PydanticFieldLines(schema_type, fields, 1)
  \o (IF schema_type = "Response" /\ schema.timestamps
        THEN <<[name |-> "created_at", type |-> [base |-> "datetime", none |-> FALSE],
                default |-> ""],
               [name |-> "updated_at", type |-> [base |-> "datetime", none |-> FALSE],
                default |-> ""]>>
        ELSE Empty)

\* api_gen.py 71-211: the three data-transfer types of the rendered router (its
\* five handlers are the handler actions of this module)
GenerateRouter(schema, fields) ==
  [Create   |-> GeneratePydanticSchema(schema, fields, "Create"),
   Update   |-> GeneratePydanticSchema(schema, fields, "Update"),
   Response |-> GeneratePydanticSchema(schema, fields, "Response")]

\* --------------------------------------------------------- generate_code
\* generator/__init__.py 9-16: a run begins on the documents of schema_dir
GenerateCode(schema_dir) ==
  /\ gen.pc = "idle"
  /\ gen' = [IdleGen EXCEPT !.pc = "parse", !.schema_dir = schema_dir, !.s = 1]
  /\ UNCHANGED <<rvars, checks, raised, files>>

\* (mutation: a document that does not parse is skipped and the rest is kept)
ParseFileSkipsMalformed ==
  /\ gen.pc = "parse"
  /\ gen.s <= Len(gen.schema_dir)
  /\ gen' = [gen EXCEPT !.parsed = IF ParseFileRaises(gen.schema_dir[gen.s]) THEN @
                                    ELSE Append(@, gen.schema_dir[gen.s]),
                        !.s = @ + 1]
  /\ UNCHANGED <<rvars, checks, raised, files>>

\* parser.py 55-57: one turn of parse_all's loop: the next document is parsed and
\* appended to the local list, or parse_file's error leaves parse_all and the run
ParseFile ==
  /\ gen.pc = "parse"
  /\ gen.s <= Len(gen.schema_dir)
  /\ IF ParseFileRaises(gen.schema_dir[gen.s])
       THEN /\ gen' = [gen EXCEPT !.pc = "failed"]
            /\ raised' = Append(raised, [kind |-> "malformed_document", at |-> gen.s])
       ELSE /\ gen' = [gen EXCEPT !.parsed = Append(@, gen.schema_dir[gen.s]), !.s = @ + 1]
            /\ raised' = raised
  /\ UNCHANGED <<rvars, checks, files>>

\* parser.py 58, generator/__init__.py 16: parse_all returns its list
ParseAllReturn ==
  /\ gen.pc = "parse"
  /\ gen.s > Len(gen.schema_dir)
  /\ gen' = [gen EXCEPT !.pc = "extract", !.schemas = gen.parsed, !.s = 1]
  /\ UNCHANGED <<rvars, checks, raised, files>>

\* validator.py 91-92: the next relation of the loops over every schema's
\* relations; past the last, validate_all returns and the models are generated
RECURSIVE EnterTargets(_, _, _)
EnterTargets(g, s, k) ==
  IF s > Len(g.schemas)
    THEN [g EXCEPT !.pc = "models", !.part = "", !.s = 1, !.k = 0]
    ELSE IF k <= Len(g.schemas[s].relations)
           THEN [g EXCEPT !.part = "target", !.s = s, !.k = k]
           ELSE EnterTargets(g, s + 1, 1)

\* validator.py 86-88, 70: the next schema's field loop, or the primary-key check
\* when it has no field; past the last schema, the loop of line 91
EnterSchema(g, s) ==
  IF s > Len(g.schemas) THEN EnterTargets(g, 1, 1)
  ELSE IF g.field_map[g.schemas[s].name] = Empty
         THEN [g EXCEPT !.part = "primary", !.s = s, !.k = 0]
         ELSE [g EXCEPT !.part = "type", !.s = s, !.k = 1]

\* validator.py 53: the next relation of the schema, or the next schema
EnterRelations(g, s, k) ==
  IF k <= Len(g.schemas[s].relations)
    THEN [g EXCEPT !.part = "relation", !.s = s, !.k = k]
    ELSE EnterSchema(g, s + 1)

\* generator/__init__.py 20-24: one turn of the loop filling field_map and
\* relation_map; after the last schema validate_all is entered
ExtractFieldsAndRelations ==
  /\ gen.pc = "extract"
  /\ IF gen.s > Len(gen.schemas)
       THEN /\ gen' = EnterSchema([gen EXCEPT !.pc = "validate"], 1)
            /\ raised' = raised
       ELSE LET schema == gen.schemas[gen.s]
            IN IF GetFieldDefinitionsRaises(schema) \/ GetRelationsRaises(schema)
                 THEN /\ gen' = [gen EXCEPT !.pc = "failed"]
                      /\ raised' = Append(raised, [kind |-> "malformed_document", at |-> gen.s])
                 ELSE /\ gen' = [gen EXCEPT
                           !.field_map = Put(@, schema.name, schema.fields),
                           !.relation_map = Put(@, schema.name, schema.relations),
                           !.s = @ + 1]
                      /\ raised' = raised
  /\ UNCHANGED <<rvars, checks, files>>

\* the field, relation and schema the validator is at
AtSchema == gen.schemas[gen.s]
AtField == gen.field_map[AtSchema.name][gen.k]
AtRelation == AtSchema.relations[gen.k]

\* (mutation: a failed check records its error and validation goes on)
CheckAccumulates(name, fails, error, next) ==
  /\ checks' = Append(checks, [check |-> name, s |-> gen.s, k |-> gen.k])
  /\ raised' = IF fails THEN Append(raised, error) ELSE raised
  /\ gen' = next
  /\ UNCHANGED <<rvars, files>>

\* A check is made: it raises error (which leaves validate_all and, re-raised
\* by generator/__init__.py 32-34, the run) or passes and the run goes on at next.
Check(name, fails, error, next) ==
  /\ checks' = Append(checks, [check |-> name, s |-> gen.s, k |-> gen.k])
  /\ IF fails
       THEN /\ raised' = Append(raised, error)
            /\ gen' = [gen EXCEPT !.pc = "failed"]
       ELSE /\ raised' = raised
            /\ gen' = next
  /\ UNCHANGED <<rvars, files>>

\* validator.py 71, 25-31
ValidateFieldType ==
  /\ gen.pc = "validate" /\ gen.part = "type"
  /\ Check("field_type", ~FieldTypeValid(AtField), InvalidFieldType(AtField),
           [gen EXCEPT !.part = "required_nullable"])

\* validator.py 72, 44-49
ValidateRequiredNullable ==
  /\ gen.pc = "validate" /\ gen.part = "required_nullable"
  /\ Check("required_nullable", RequiredNullable(AtField), RequiredNullableError(AtField),
           IF gen.k < Len(gen.field_map[AtSchema.name])
             THEN [gen EXCEPT !.part = "type", !.k = @ + 1]
             ELSE [gen EXCEPT !.part = "primary", !.k = 0])

\* validator.py 75, 33-42
ValidatePrimaryKey ==
  /\ gen.pc = "validate" /\ gen.part = "primary"
  /\ LET primary_keys == PrimaryKeys(gen.field_map[AtSchema.name])
     IN Check("primary_key", Len(primary_keys) # 1,
              IF Len(primary_keys) = 0 THEN NoPrimaryKey(AtSchema)
              ELSE MultiplePrimaryKeys(AtSchema, primary_keys),
              EnterRelations(gen, gen.s, 1))

\* validator.py 78, 53-65: one turn of validate_relations' loop
ValidateRelations ==
  /\ gen.pc = "validate" /\ gen.part = "relation"
  /\ Check("relation", ~RelationTypeValid(AtRelation) \/ ~Truthy(AtRelation.target),
           IF ~RelationTypeValid(AtRelation) THEN InvalidRelationType(AtSchema, AtRelation)
           ELSE MissingTarget(AtSchema),
           EnterRelations(gen, gen.s, gen.k + 1))

\* validator.py 91-97: one turn of the loops over every schema's relations
ValidateRelationTarget ==
  /\ gen.pc = "validate" /\ gen.part = "target"
  /\ Check("target",
           Truthy(AtRelation.target) /\ ~TargetKnown(gen.schemas, gen.s, AtRelation.target),
           DanglingTarget(AtSchema, AtRelation.target),
           EnterTargets(gen, gen.s, gen.k + 1))

\* generator/__init__.py 39-40, model_gen.py 134-162: generate_all writes one
\* model unit per schema, then the index importing them
WriteModel ==
  /\ gen.pc = "models"
  /\ IF gen.s <= Len(gen.schemas)
       THEN LET schema == gen.schemas[gen.s]
            IN /\ files' = Append(files,
                    [unit |-> "model", name |-> schema.name,
                     content |-> GenerateModel(schema, gen.field_map[schema.name],
                                               gen.relation_map[schema.name])])
               /\ gen' = [gen EXCEPT !.s = @ + 1]
       ELSE /\ files' = Append(files,
                 [unit |-> "model_index", name |-> "__init__",
                  content |-> [n \in 1..Len(gen.schemas) |-> gen.schemas[n].name]])
            /\ gen' = [gen EXCEPT !.pc = "routers", !.s = 1]
  /\ UNCHANGED <<rvars, checks, raised>>

\* generator/__init__.py 45-46, api_gen.py 213-248: generate_all writes one
\* router unit per schema, then the index combining them; the run is over
WriteRouter ==
  /\ gen.pc = "routers"
  /\ IF gen.s <= Len(gen.schemas)
       THEN LET schema == gen.schemas[gen.s]
            IN /\ files' = Append(files,
                    [unit |-> "router", name |-> schema.name,
                     content |-> GenerateRouter(schema, gen.field_map[schema.name])])
               /\ gen' = [gen EXCEPT !.s = @ + 1]
       ELSE /\ files' = Append(files,
                 [unit |-> "router_index", name |-> "__init__",
                  content |-> [n \in 1..Len(gen.schemas) |-> gen.schemas[n].name]])
            /\ gen' = [gen EXCEPT !.pc = "done", !.s = 0]
  /\ UNCHANGED <<rvars, checks, raised>>

\* model_gen.py 87-132, api_gen.py 71-211: after the run, generate_model and
\* generate_router are called once more on the next schema with the fields and
\* relations the run used; what they return is kept and nothing is written
GenerateAgain ==
  /\ gen.pc = "done"
  /\ gen.s < Len(gen.schemas)
  /\ LET schema == gen.schemas[gen.s + 1]
     IN gen' = [gen EXCEPT
          !.s = @ + 1,
          !.again = Append(@,
             [name |-> schema.name,
              model |-> GenerateModel(schema, gen.field_map[schema.name],
                                      gen.relation_map[schema.name]),
              router |-> GenerateRouter(schema, gen.field_map[schema.name])])]
  /\ UNCHANGED <<rvars, checks, raised, files>>

\* model_gen.py 38-62: _generate_field_code called on a field by itself, as
\* write_model's callers outside generate_code may (no validator has seen it)
GenerateFieldCodeCall(field) ==
  /\ gen.pc = "idle"
  /\ gen' = [IdleGen EXCEPT !.pc = "field_code",
                            !.field_code = <<[field |-> field,
                                              line |-> GenerateFieldCode(field)]>>]
  /\ UNCHANGED <<rvars, checks, raised, files>>

\* ------------------------------------------------- generation inputs
\* Fields a document may declare: two primary keys (the second one required and
\* nullable, which a primary key may be), two sound plain fields, one of a type
\* outside the 11, one required and nullable.
FieldPool ==
  {Field("id", "uuid", TRUE, FALSE, TRUE, 0),
   Field("code", "integer", TRUE, TRUE, TRUE, 0),
   Field("title", "string", FALSE, TRUE, FALSE, 255),
   Field("body", "text", FALSE, FALSE, TRUE, 0),
   Field("tag", "varchar", FALSE, FALSE, TRUE, 0),
   Field("slug", "string", FALSE, TRUE, TRUE, 0)}

\* the field lists of at most MaxFields fields, no name twice
FieldLists ==
  {fs \in UNION {[1..n -> FieldPool] : n \in 0..MaxFields} :
     \A i, j \in DOMAIN fs : i # j => fs[i].name # fs[j].name}

\* Relation lists a document may declare: none; sound ones to the schema defined
\* later, to the schema itself; a dangling target; an unknown type; an empty
\* target; a dangling target ahead of an unknown type; two sound ones.
RelationLists ==
  {Empty,
   <<Relation("many_to_one", "Post")>>,
   <<Relation("one_to_many", "User")>>,
   <<Relation("many_to_one", "Ghost")>>,
   <<Relation("has_many", "Post")>>,
   <<Relation("many_to_one", "")>>,
   <<Relation("many_to_one", "Ghost"), Relation("has_many", "Post")>>,
   <<Relation("one_to_many", "Post"), Relation("many_to_many", "User")>>}

\* the first document of the directory
FirstDocs ==
  {Schema("User", "users", fs, rs, sd, ts) :
     fs \in FieldLists, rs \in RelationLists, sd \in BOOLEAN, ts \in BOOLEAN}

\* The documents that may follow it: a sound Post, a Post with two primary keys,
\* a Post with no primary key and a field of a bad type, a Post whose field has
\* no type, a Post whose relation has no target, a document the parser rejects.
SecondDocs ==
  {Schema("Post", "posts",
          <<Field("id", "uuid", TRUE, FALSE, TRUE, 0),
            Field("title", "string", FALSE, TRUE, FALSE, 255)>>,
          <<Relation("many_to_one", "User")>>, TRUE, TRUE),
   Schema("Post", "posts",
          <<Field("id", "uuid", TRUE, FALSE, TRUE, 0),
            Field("code", "integer", TRUE, TRUE, TRUE, 0)>>, Empty, FALSE, TRUE),
   Schema("Post", "posts",
          <<Field("tag", "varchar", FALSE, FALSE, TRUE, 0)>>, Empty, FALSE, FALSE),
   Schema("Post", "posts",
          <<Field("id", "uuid", TRUE, FALSE, TRUE, 0),
            Field("title", Absent, FALSE, TRUE, FALSE, 0)>>, Empty, FALSE, TRUE),
   Schema("Post", "posts",
          <<Field("id", "uuid", TRUE, FALSE, TRUE, 0)>>,
          <<Relation("many_to_one", Absent)>>, FALSE, TRUE),
   Malformed}

SchemaDirs ==
  {<<d>> : d \in FirstDocs} \cup (FirstDocs \X SecondDocs) \cup {<<Malformed>>, Empty}

\* Fields _generate_field_code is called on by itself: every one of the 11
\* types and two the table does not know, primary or not, nullable or not, with
\* and without a max_length.
TypedFields ==
  {Field("f", type, primary, FALSE, nullable, max_length) :
     type \in VALID_TYPES \cup {"varchar", "decimal"}, primary \in BOOLEAN,
     nullable \in BOOLEAN, max_length \in {0, 255}}

NextGen ==
  \/ gen.pc = "idle" /\ \E schema_dir \in SchemaDirs : GenerateCode(schema_dir)
  \/ \E field \in TypedFields : GenerateFieldCodeCall(field)
  \/ ParseFile
  \/ ParseAllReturn
  \/ ExtractFieldsAndRelations
  \/ ValidateFieldType
  \/ ValidateRequiredNullable
  \/ ValidatePrimaryKey
  \/ ValidateRelations
  \/ ValidateRelationTarget
  \/ WriteModel
  \/ WriteRouter
  \/ GenerateAgain

SpecGen == Init /\ [][NextGen]_vars

\* ------------------------------- generated handlers: list, get, update
\* api_gen.py 131: skip: int = Query(0, ge=0)
SkipMin == 0
\* api_gen.py 132: limit: int = Query(100, ge=1, le=1000)
LimitMin == 1
LimitMax == 1000

\* (mutation: the upper bound of limit is missing)
QueryParamsValidNoUpper(skip, limit) == skip >= SkipMin /\ limit >= LimitMin

\* api_gen.py 131-132: the constraints the framework enforces on the query
\* parameters before the handler body runs
QueryParamsValid(skip, limit) ==
  skip >= SkipMin /\ limit >= LimitMin /\ limit <= LimitMax

\* the stored rows, in primary-key order
Rows(d) ==
  LET ids == CHOOSE s \in [1..Cardinality(DOMAIN d) -> DOMAIN d] :
               \A i, j \in DOMAIN s : i < j => s[i] < s[j]
  IN [n \in DOMAIN ids |-> d[ids[n]]]

\* api_gen.py 136: db.query(Model).offset(skip).limit(limit).all()
QueryAll(d, skip, limit) ==
  LET rows == Rows(d)
      last == IF skip + limit < Len(rows) THEN skip + limit ELSE Len(rows)
  IN SubSeq(rows, skip + 1, last)

\* api_gen.py 128-137: the list handler.  Parameters outside their constraints
\* are answered with 422 and the body does not run.
ListRequest(t, skip, limit) ==
  /\ Free(t)
  /\ nReqs < MaxReqs
  /\ nReqs' = nReqs + 1
  /\ rq' = [rq EXCEPT ![t] =
       IF QueryParamsValid(skip, limit)
         THEN [IdleReq EXCEPT !.pc = "done", !.op = "list", !.status = "200", !.db0 = db,
                              !.skip = skip, !.limit = limit,
                              !.queries = <<[skip |-> skip, limit |-> limit]>>,
                              !.result = QueryAll(db, skip, limit)]
         ELSE [IdleReq EXCEPT !.pc = "done", !.op = "list", !.status = "422", !.db0 = db,
                              !.skip = skip, !.limit = limit]]
  /\ ex' = [ex EXCEPT ![t] = IdleExec]
  /\ UNCHANGED <<gvars, db, hooks, lock, rg, regLog, nRegs, nExecs, phase>>

\* api_gen.py 139-148: the get handler
GetRequest(t, id) ==
  /\ Free(t)
  /\ nReqs < MaxReqs
  /\ nReqs' = nReqs + 1
  /\ rq' = [rq EXCEPT ![t] =
       IF Missing(Lookup(db, id))
         THEN [IdleReq EXCEPT !.pc = "done", !.op = "get", !.id = id, !.status = "404",
                              !.db0 = db]
         ELSE [IdleReq EXCEPT !.pc = "done", !.op = "get", !.id = id, !.status = "200",
                              !.db0 = db, !.item = Lookup(db, id), !.loaded = Lookup(db, id),
                              !.result = <<Lookup(db, id)>>]]
  /\ ex' = [ex EXCEPT ![t] = IdleExec]
  /\ UNCHANGED <<gvars, db, hooks, lock, rg, regLog, nRegs, nExecs, phase>>

\* api_gen.py 158-167: the row is looked up; when there is none the request ends
\* with 404, else its public attributes are copied to old_data, the payload's
\* set fields are dumped to update_data and the before_update chain is started
\* with instance=item, data=update_data
UpdateBegin(t, id, payload) ==
  /\ Free(t)
  /\ nReqs < MaxReqs
  /\ nReqs' = nReqs + 1
  /\ IF Missing(Lookup(db, id))
       THEN /\ rq' = [rq EXCEPT ![t] =
                 [IdleReq EXCEPT !.pc = "done", !.op = "update", !.id = id, !.status = "404",
                                 !.db0 = db]]
            /\ ex' = [ex EXCEPT ![t] = IdleExec]
            /\ phase' = phase
       ELSE /\ rq' = [rq EXCEPT ![t] =
                 [IdleReq EXCEPT !.pc = "before", !.op = "update", !.id = id,
                                 !.item = Lookup(db, id), !.loaded = Lookup(db, id),
                                 !.old_data = Lookup(db, id), !.update_data = payload,
                                 !.db0 = db]]
            /\ ex' = [ex EXCEPT ![t] =
                 EnterExec(BEFORE_UPDATE, Entity,
                           ("instance" :> id) @@ ("data" :> "update_data"))]
            /\ phase' = PhaseOnExec
  /\ UNCHANGED <<gvars, db, hooks, lock, rg, regLog, nRegs, nExecs>>

\* (mutation: every field is assigned, those the payload lacks as None)
SetattrsAll(item, update_data) ==
  [f \in DOMAIN item |-> IF f \in DOMAIN update_data THEN update_data[f] ELSE "None"]

\* api_gen.py 169-170: for field, value in update_data.items(): setattr(item, field, value)
Setattrs(item, update_data) ==
  [f \in DOMAIN item |-> IF f \in DOMAIN update_data THEN update_data[f] ELSE item[f]]

\* api_gen.py 167-173: the chain is over; its return value is dropped.  An error
\* leaves the handler; else the payload's fields are set on the object, the
\* session is committed and the object refreshed from its row
UpdateApply(t) ==
  /\ rq[t].op = "update" /\ rq[t].pc = "before"
  /\ ex[t].pc = "done"
  /\ LET r == [rq[t] EXCEPT !.before = [k \in 1..Len(ex[t].invoked) |-> ex[t].invoked[k].func]]
     IN IF ex[t].rkind = "error"
          THEN /\ rq' = [rq EXCEPT ![t] = [r EXCEPT !.pc = "done", !.status = "error",
                                                    !.error = ex[t].rval]]
               /\ db' = Left(db, r.id, r.item)
          ELSE LET item == Setattrs(r.item, r.update_data)
               IN /\ db' = Commit(db, r.id, item)
                  /\ rq' = [rq EXCEPT ![t] =
                       [r EXCEPT !.pc = "call_after", !.item = item,
                                 !.events = @ \o <<"applied", "commit">>,
                                 !.trace = Append(@, Committed)]]
  /\ UNCHANGED <<gvars, hooks, lock, rg, ex, regLog, nRegs, nExecs, phase, nReqs>>

\* (mutation: old_data is the object's own attribute dict, not a copy of it)
OldDataAliased(r) == r.item

\* api_gen.py 163, 176: old_data is the dict built at line 163, a copy of the
\* object's public attributes as they were then
OldData(r) == r.old_data

\* api_gen.py 176: the after_update chain is started with the refreshed object
\* and old_data
UpdateCallAfter(t) ==
  /\ rq[t].op = "update" /\ rq[t].pc = "call_after"
  /\ ex' = [ex EXCEPT ![t] =
       EnterExec(AFTER_UPDATE, Entity,
                 ("instance" :> rq[t].id) @@ ("old_data" :> OldData(rq[t])))]
  /\ rq' = [rq EXCEPT ![t].pc = "after", ![t].events = Append(@, "after_update")]
  /\ phase' = PhaseOnExec
  /\ UNCHANGED <<gvars, db, hooks, lock, rg, regLog, nRegs, nExecs, nReqs>>

\* api_gen.py 176-178: the chain's return value is dropped; its error leaves the
\* handler; else the object is returned
UpdateEnd(t) ==
  /\ rq[t].op = "update" /\ rq[t].pc = "after"
  /\ ex[t].pc = "done"
  /\ rq' = [rq EXCEPT ![t].pc = "done",
                       ![t].status = IF ex[t].rkind = "error" THEN "error" ELSE "200",
                       ![t].error = IF ex[t].rkind = "error" THEN ex[t].rval ELSE "None",
                       ![t].result = IF ex[t].rkind = "error" THEN Empty ELSE <<rq[t].item>>]
  /\ UNCHANGED <<gvars, db, hooks, lock, rg, ex, regLog, nRegs, nExecs, phase, nReqs>>

\* ---------------------------------------- generated handlers: create
\* api_gen.py 117: Model(**data): the entity built from the dict's entries; the
\* columns the dict does not name keep their defaults
NewItem(data) ==
  [k \in DOMAIN NoItem |-> IF k \in DOMAIN data THEN data[k] ELSE "null"]

\* the primary key the column default gives the new row: one no row has
NewId(d) == CHOOSE i \in 1..(Cardinality(DOMAIN d) + 1) : i \notin DOMAIN d

\* api_gen.py 115-117: execute_hooks' return value is dropped; the entity is
\* built from the handler's local `data`
CreateData(r, e) == r.data

\* (mutation: the entity is added to the session and never committed)
CommitAddNothing(d, id, item) == d

\* api_gen.py 118-119: db.add(db_item); db.commit(): the row is stored
CommitAdd(d, id, item) == [i \in DOMAIN d \cup {id} |-> IF i = id THEN item ELSE d[i]]

\* api_gen.py 114-115: the payload is dumped to the local dict `data` and the
\* before_create chain is started with data=data
CreateBegin(t, payload) ==
  /\ Free(t)
  /\ nReqs < MaxReqs
  /\ nReqs' = nReqs + 1
  /\ rq' = [rq EXCEPT ![t] =
       [IdleReq EXCEPT !.pc = "before", !.op = "create", !.data = payload, !.db0 = db]]
  /\ ex' = [ex EXCEPT ![t] = EnterExec(BEFORE_CREATE, Entity, ("data" :> "data"))]
  /\ phase' = PhaseOnExec
  /\ UNCHANGED <<gvars, db, hooks, lock, rg, regLog, nRegs, nExecs>>

\* api_gen.py 115-120: the chain is over; its return value is dropped.  An error
\* leaves the handler; else the entity is built from `data`, added, committed
\* and refreshed from its row
CreatePersist(t) ==
  /\ rq[t].op = "create" /\ rq[t].pc = "before"
  /\ ex[t].pc = "done"
  /\ LET r == [rq[t] EXCEPT !.before = [k \in 1..Len(ex[t].invoked) |-> ex[t].invoked[k].func]]
     IN IF ex[t].rkind = "error"
          THEN /\ rq' = [rq EXCEPT ![t] = [r EXCEPT !.pc = "done", !.status = "error",
                                                    !.error = ex[t].rval]]
               /\ db' = Left(db, r.id, r.item)
          ELSE LET db_item == NewItem(CreateData(r, ex[t]))
                   id == NewId(db)
               IN /\ db' = CommitAdd(db, id, db_item)
                  /\ rq' = [rq EXCEPT ![t] =
                       [r EXCEPT !.pc = "call_after", !.id = id,
                                 !.item = Lookup(db', id), !.loaded = db_item,
                                 !.events = @ \o <<"add", "commit">>,
                                 !.trace = Append(@, Committed)]]
  /\ UNCHANGED <<gvars, hooks, lock, rg, ex, regLog, nRegs, nExecs, phase, nReqs>>

\* api_gen.py 123: the after_create chain is started with instance=db_item
CreateCallAfter(t) ==
  /\ rq[t].op = "create" /\ rq[t].pc = "call_after"
  /\ ex' = [ex EXCEPT ![t] = EnterExec(AFTER_CREATE, Entity, ("instance" :> rq[t].id))]
  /\ rq' = [rq EXCEPT ![t].pc = "after", ![t].events = Append(@, "after_create")]
  /\ phase' = PhaseOnExec
  /\ UNCHANGED <<gvars, db, hooks, lock, rg, regLog, nRegs, nExecs, nReqs>>

\* api_gen.py 123-125: the chain's return value is dropped; its error leaves the
\* handler; else the object is returned
CreateEnd(t) ==
  /\ rq[t].op = "create" /\ rq[t].pc = "after"
  /\ ex[t].pc = "done"
  /\ rq' = [rq EXCEPT ![t].pc = "done",
                       ![t].status = IF ex[t].rkind = "error" THEN "error" ELSE "201",
                       ![t].error = IF ex[t].rkind = "error" THEN ex[t].rval ELSE "None",
                       ![t].result = IF ex[t].rkind = "error" THEN Empty ELSE <<rq[t].item>>]
  /\ UNCHANGED <<gvars, db, hooks, lock, rg, ex, regLog, nRegs, nExecs, phase, nReqs>>

\* One caller registering before_create and after_create hooks for the entity
\* and sending create requests.  set_title edits the dict it is handed,
\* replace_data returns a mapping with a new `data` entry, allow returns True,
\* boom raises.
RegInputsCreate ==
  ({BEFORE_CREATE} \X {Entity} \X {"set_title", "replace_data", "allow", "boom"})
  \cup ({AFTER_CREATE} \X {Entity} \X {"log_only", "touch"})

\* create payloads, as model_dump() renders them: every field of the Create type
CreatePayloads ==
  {("title" :> "c") @@ ("content" :> "y"), ("title" :> "d") @@ ("content" :> "None")}

CreateStep(t) ==
  \/ CreatePersist(t)
  \/ CreateCallAfter(t)
  \/ CreateEnd(t)

NextCreate ==
  \E t \in {"t1"} :
    \/ \E a \in RegInputsCreate : RegisterBegin(t, a[1], a[2], a[3])
    \/ RegisterStep(t)
    \/ \E payload \in CreatePayloads : CreateBegin(t, payload)
    \/ ExecTest(t)
    \/ ExecStep(t)
    \/ CreateStep(t)

SpecCreate == Init /\ [][NextCreate]_vars

\* One caller registering hooks that raise at each of the six lifecycle points
\* (one of them a callable without __name__) and a hook that sets a field on the
\* entity, and sending create, update and delete requests.
RegInputsWrite ==
  (VALID_HOOKS \X {Entity} \X {"boom"})
  \cup {<<BEFORE_UPDATE, Entity, "touch">>, <<BEFORE_DELETE, Entity, "partial_boom">>}

WritePayloads == {("title" :> "c") @@ ("content" :> "y")}

UpdateStep(t) ==
  \/ UpdateApply(t)
  \/ UpdateCallAfter(t)
  \/ UpdateEnd(t)

DeleteStep(t) ==
  \/ DeleteDecide(t)
  \/ DeleteRemove(t)
  \/ DeleteCallAfter(t)
  \/ DeleteEnd(t)

NextWrite ==
  \E t \in {"t1"} :
    \/ \E a \in RegInputsWrite : RegisterBegin(t, a[1], a[2], a[3])
    \/ RegisterStep(t)
    \/ \E payload \in WritePayloads : CreateBegin(t, payload)
    \/ \E payload \in WritePayloads : UpdateBegin(t, 1, payload)
    \/ DeleteBegin(t, 1)
    \/ ExecTest(t)
    \/ ExecStep(t)
    \/ CreateStep(t)
    \/ UpdateStep(t)
    \/ DeleteStep(t)

SpecWrite == Init /\ [][NextWrite]_vars

\* One caller registering hooks for the entity and sending list, get, update and
\* delete requests.
RegInputsCrud ==
  {<<BEFORE_UPDATE, Entity, "touch">>, <<BEFORE_UPDATE, Entity, "set_title">>,
   <<BEFORE_UPDATE, Entity, "boom">>, <<AFTER_UPDATE, Entity, "log_only">>,
   <<BEFORE_DELETE, Entity, "soft_delete">>}

\* update payloads: the fields a request sets
Payloads ==
  {Empty, ("title" :> "c"), ("content" :> "y"), ("title" :> "c") @@ ("content" :> "y")}

\* (skip, limit) pairs of list requests: each bound from both sides, the default
\* limit, and both parameters out of range at once
SkipLimits ==
  {<<0, 1>>, <<1, 100>>, <<0, 1000>>, <<-1, 1>>, <<0, 0>>, <<0, 1001>>, <<1, 5000>>,
   <<-1, 5000>>}

NextCrud ==
  \E t \in {"t1"} :
    \/ \E a \in RegInputsCrud : RegisterBegin(t, a[1], a[2], a[3])
    \/ RegisterStep(t)
    \/ \E a \in SkipLimits : ListRequest(t, a[1], a[2])
    \/ \E id \in RequestIds : GetRequest(t, id)
    \/ \E id \in RequestIds, payload \in Payloads : UpdateBegin(t, id, payload)
    \/ \E id \in RequestIds : DeleteBegin(t, id)
    \/ ExecTest(t)
    \/ ExecStep(t)
    \/ UpdateApply(t)
    \/ UpdateCallAfter(t)
    \/ UpdateEnd(t)
    \/ DeleteDecide(t)
    \/ DeleteRemove(t)
    \/ DeleteCallAfter(t)
    \/ DeleteEnd(t)

SpecCrud == Init /\ [][NextCrud]_vars

\* ============================================================ properties
IsPrefix(a, b) == Len(a) <= Len(b) /\ a = SubSeq(b, 1, Len(a))

InvokedFuncs(e) == [k \in 1..Len(e.invoked) |-> e.invoked[k].func]

AllKeys == (VALID_HOOKS \cup {"on_create"}) \X (Models \cup {"Ghost"})

NoRegisterRunning == \A t \in Threads : rg[t].pc = "idle"

\* C1: with register calls made one after another, an execute_hooks call invokes
\* only callables registered for its own (entity, event) key, in registration
\* order, each once per registration; when it ends by returning the context (no
\* hook short-circuited or raised) it has invoked all of them.
C1_InvokesKeyInOrder ==
  \A t \in Threads :
    /\ IsPrefix(InvokedFuncs(ex[t]), ex[t].regAtStart)
    /\ (ex[t].pc = "done" /\ ex[t].rkind = "context"
          => InvokedFuncs(ex[t]) = ex[t].regAtStart)

\* C1 witness: a finished call that invoked two different hooks of its key while a
\* hook was registered under another key.
C1_Witness ==
  /\ ex["t1"].pc = "done" /\ ex["t1"].rkind = "context"
  /\ ex["t1"].hook_type = BEFORE_DELETE /\ ex["t1"].model_name = "Post"
  /\ InvokedFuncs(ex["t1"]) = <<"add_xy", "log_only">>
  /\ GetHooks(hooks, AFTER_DELETE, "Post") # Empty

\* the caller's context updated, in order, with the dicts the first n invoked
\* hooks returned
RECURSIVE C2_Accumulated(_, _, _)
C2_Accumulated(ctx0, invoked, n) ==
  IF n = 0 THEN ctx0
  ELSE LET prev == C2_Accumulated(ctx0, invoked, n - 1)
           r == HookResult(invoked[n].func)
       IN IF r.kind = "dict"
            THEN [k \in DOMAIN prev \cup DOMAIN r.dict |->
                    IF k \in DOMAIN r.dict THEN r.dict[k] ELSE prev[k]]
            ELSE prev

\* C2: the k-th hook is called with the caller's context updated, in order, with
\* every dict returned by hooks 1..k-1 (later keys overwrite); a call that ends
\* without short-circuit or error returns the context accumulated over all hooks.
C2_ContextAccumulates ==
  \A t \in Threads :
    /\ \A k \in 1..Len(ex[t].invoked) :
         ex[t].invoked[k].context = C2_Accumulated(ex[t].ctx0, ex[t].invoked, k - 1)
    /\ (ex[t].pc = "done" /\ ex[t].rkind = "context"
          => ex[t].ret = C2_Accumulated(ex[t].ctx0, ex[t].invoked, Len(ex[t].invoked)))

\* C2 witness: hook B saw the x hook A returned in place of the caller's, and the
\* caller got B's x and y back.
C2_Witness ==
  /\ ex["t1"].pc = "done" /\ ex["t1"].rkind = "context"
  /\ ex["t1"].ctx0 = ("x" :> 0)
  /\ InvokedFuncs(ex["t1"]) = <<"add_x", "add_xy">>
  /\ ex["t1"].invoked[2].context = ("x" :> 1)
  /\ ex["t1"].ret = ("x" :> 2) @@ ("y" :> 1)

\* C3: a hook's non-dict, non-None result ends the call at once: it is the last
\* hook invoked and the call returns exactly that value.
C3_ShortCircuit ==
  \A t \in Threads : \A k \in 1..Len(ex[t].invoked) :
    HookResult(ex[t].invoked[k].func).kind = "value"
      => /\ k = Len(ex[t].invoked)
         /\ ex[t].pc = "done"
         /\ ex[t].rkind = "value"
         /\ ex[t].rval = HookResult(ex[t].invoked[k].func).val

\* C3 witness: a call returned False while a hook registered after the
\* short-circuiting one was left uninvoked.
C3_Witness ==
  /\ ex["t1"].pc = "done" /\ ex["t1"].rkind = "value" /\ ex["t1"].rval = "False"
  /\ Len(ex["t1"].invoked) < Len(ex["t1"].regAtStart)

\* C4: a hook that raises ends the call at once: it is the last hook invoked and
\* the call raises that same error.
C4_SameErrorPropagates ==
  \A t \in Threads : \A k \in 1..Len(ex[t].invoked) :
    HookResult(ex[t].invoked[k].func).kind = "raise"
      => /\ k = Len(ex[t].invoked)
         /\ ex[t].pc = "done"
         /\ ex[t].rkind = "error"
         /\ ex[t].rval = HookResult(ex[t].invoked[k].func).val

\* the callables of the register calls for a key that returned normally
C5_Succeeded(log, hook_type, model_name) ==
  LET Ok(r) == r.hook_type = hook_type /\ r.model_name = model_name /\ r.outcome = "ok"
  IN FuncsOf(SelectSeq(log, Ok))

\* C5: a register call with an event name outside the six fails and leaves the
\* registry as it was; one with any of the six names succeeds and appends its
\* callable to the end of the key's list.  So every finished call has failed with
\* ValueError or succeeded according to its event name, and between calls every
\* key's list is the callables of the successful calls for it, in call order.
C5_RegisterOutcome ==
  /\ \A n \in 1..Len(regLog) :
       regLog[n].outcome = IF regLog[n].hook_type \in VALID_HOOKS THEN "ok" ELSE "ValueError"
  /\ (NoRegisterRunning
        => \A k \in AllKeys : GetHooks(hooks, k[1], k[2]) = C5_Succeeded(regLog, k[1], k[2]))

\* C6: the registry starts empty, and no step of register, get_hooks,
\* execute_hooks or list_hooks removes, replaces or reorders a registration: every
\* key's list before a step is a prefix of its list after the step.
C6_AppendOnly ==
  /\ hooks = Empty
  /\ [][\A k \in AllKeys : IsPrefix(GetHooks(hooks, k[1], k[2]), GetHooks(hooks', k[1], k[2]))]_vars

\* C6 witness: two registrations under one key survived a later list_hooks call.
C6_Witness ==
  /\ Len(GetHooks(hooks, BEFORE_DELETE, "Post")) >= 2
  /\ GetHooks(hooks, AFTER_DELETE, "Post") # Empty
  /\ ex["t1"].pc = "done" /\ ex["t1"].rkind = "names"

Count(seq, f) == Cardinality({n \in 1..Len(seq) : seq[n] = f})

RECURSIVE IsSubseq(_, _)
IsSubseq(a, b) ==
  IF a = Empty THEN TRUE
  ELSE IF b = Empty THEN FALSE
  ELSE IF Head(a) = Head(b) THEN IsSubseq(Tail(a), Tail(b))
  ELSE IsSubseq(a, Tail(b))

\* the callables of thread t's register calls for a key that returned normally
C7_SucceededBy(log, t, hook_type, model_name) ==
  LET Ok(r) == /\ r.thread = t /\ r.hook_type = hook_type /\ r.model_name = model_name
               /\ r.outcome = "ok"
  IN FuncsOf(SelectSeq(log, Ok))

\* C7: with threads registering at once, when all calls are over no registration
\* is lost or duplicated: a key's list holds exactly one entry per successful
\* register call for the key (a callable registered by n successful calls stands
\* in it n times), and the entries made by one thread stand in the order of that
\* thread's calls.
C7_NoLostNoDuplicate ==
  NoRegisterRunning =>
    \A k \in {<<regLog[n].hook_type, regLog[n].model_name>> : n \in 1..Len(regLog)} :
      LET list == GetHooks(hooks, k[1], k[2])
          succeeded == C5_Succeeded(regLog, k[1], k[2])
      IN /\ \A n \in 1..Len(succeeded) : Count(list, succeeded[n]) = Count(succeeded, succeeded[n])
         /\ \A t \in Threads : IsSubseq(C7_SucceededBy(regLog, t, k[1], k[2]), list)

\* C7 witness: all calls are over, and one key holds two different callables
\* registered by one thread and a third entry registered by the other thread.
C7_Witness ==
  /\ NoRegisterRunning
  /\ Len(GetHooks(hooks, BEFORE_DELETE, "Post")) = 3
  /\ C7_SucceededBy(regLog, "t1", BEFORE_DELETE, "Post") = <<"add_x", "soft_delete">>
  /\ C7_SucceededBy(regLog, "t2", BEFORE_DELETE, "Post") = <<"add_x">>
  /\ GetHooks(hooks, BEFORE_DELETE, "Post")[2] = "add_x"
  /\ GetHooks(hooks, BEFORE_DELETE, "Post")[1] = "add_x"

IsExec(e) == e.op = "execute_hooks"

\* the result kinds of a hook that end the loop
Ends(f) == HookResult(f).kind \in {"value", "raise"}

\* C8 as claimed: with all registering over before the first execute_hooks call,
\* every finished execute_hooks call has invoked the complete list of its key.
C8_InvokesCompleteList ==
  phase = "executing" =>
    \A t \in Threads :
      IsExec(ex[t]) /\ ex[t].pc = "done"
        => InvokedFuncs(ex[t]) = Registered(regLog, ex[t].hook_type, ex[t].model_name)

\* C8 amended: no step of an execute_hooks or get_hooks call touches the lock; and
\* with all registering over before the first execute_hooks call, each of the
\* calls running at once walks the same, complete list of its key in registration
\* order: it invokes the hooks of that list up to and including the first that
\* short-circuits or raises, and all of them when none does.
C8_ConcurrentExecutions ==
  /\ [][ex' # ex => lock' = lock]_vars
  /\ [](phase = "executing" =>
         \A t \in Threads :
           IsExec(ex[t]) =>
             LET all == Registered(regLog, ex[t].hook_type, ex[t].model_name)
                 inv == InvokedFuncs(ex[t])
             IN /\ IsPrefix(inv, all)
                /\ \A k \in 1..(Len(inv) - 1) : ~Ends(inv[k])
                /\ (ex[t].pc = "done" =>
                      \/ inv = all /\ ex[t].rkind = "context"
                      \/ inv # Empty /\ Ends(inv[Len(inv)])
                           /\ ex[t].rkind \in {"value", "error"}))

\* C8 witness: two execute_hooks calls for one key are in their loops at once, one
\* having invoked both hooks of the key and the other the first.
C8_Witness ==
  /\ phase = "executing"
  /\ ex["t1"].pc = "loop" /\ ex["t2"].pc = "loop"
  /\ ex["t1"].hook_type = ex["t2"].hook_type /\ ex["t1"].model_name = ex["t2"].model_name
  /\ Len(ex["t1"].invoked) = 2 /\ Len(ex["t2"].invoked) = 1

\* the row after the given hooks, in order, have each done their edit to it
RECURSIVE AfterHooks(_, _)
AfterHooks(row, funcs) ==
  IF funcs = Empty THEN row
  ELSE LET prev == AfterHooks(row, SubSeq(funcs, 1, Len(funcs) - 1))
           f == funcs[Len(funcs)]
       IN CASE f \in {"soft_delete", "veto_zero"} -> [prev EXCEPT !.deleted_at = "now"]
            [] f = "touch"                        -> [prev EXCEPT !.title = "b"]
            [] OTHER                               -> prev

\* a finished delete request whose before_delete chain ended with a hook
\* returning one of the given values
DeleteEndedWith(t, vals) ==
  /\ rq[t].op = "delete" /\ rq[t].pc = "done"
  /\ rq[t].before # Empty
  /\ HookResult(rq[t].before[Len(rq[t].before)]).kind = "value"
  /\ HookResult(rq[t].before[Len(rq[t].before)]).val \in vals

\* the row is still there with the hooks' edits committed, and neither the removal
\* nor the after_delete chain happened
DeleteAborted(t) ==
  /\ rq[t].id \in DOMAIN db
  /\ db[rq[t].id] = AfterHooks(rq[t].loaded, rq[t].before)
  /\ rq[t].events = <<"commit">>
  /\ rq[t].status = "204"

\* C9 as claimed: a before_delete hook returning any falsy non-dict value but
\* None (False, 0, "") aborts the delete: the row stays, the hooks' edits are
\* committed, after_delete does not fire.
C9_FalsyAborts ==
  \A t \in Threads : DeleteEndedWith(t, {"False", "0", ""}) => DeleteAborted(t)

\* C9 amended: a before_delete hook returning False aborts the delete: the row
\* stays, the hooks' edits are committed, after_delete does not fire.  (After a
\* hook returning 0 or "" the delete goes ahead and the row is removed.)
C9_FalseAborts ==
  \A t \in Threads :
    /\ DeleteEndedWith(t, {"False"}) => DeleteAborted(t)
    /\ DeleteEndedWith(t, {"0", ""}) => rq[t].id \notin DOMAIN db

\* C9 witness: touch edited the title, soft_delete set deleted_at and returned
\* False; both edits are in the stored row and the registered after_delete hook
\* was not called.
C9_Witness ==
  /\ DeleteEndedWith("t1", {"False"})
  /\ rq["t1"].before = <<"touch", "soft_delete">>
  /\ db[1] = [title |-> "b", content |-> "x", deleted_at |-> "now"]
  /\ GetHooks(hooks, AFTER_DELETE, Entity) # Empty
  /\ ex["t1"].hook_type = BEFORE_DELETE

\* a delete request past its before_delete chain, every hook of which returned
\* None or a dict (or there was none)
DeleteProceeds(t) ==
  /\ rq[t].op = "delete" /\ rq[t].pc \in {"remove", "call_after", "after", "done"}
  /\ rq[t].status # "404"
  /\ ex[t].pc # "idle"
  /\ Len(rq[t].before) = Len(Registered(regLog, BEFORE_DELETE, Entity))
  /\ \A k \in 1..Len(rq[t].before) : HookResult(rq[t].before[k]).kind \in {"none", "dict"}

\* C10: when every before_delete hook returned None or a dict (or none is
\* registered), the row is removed and the removal committed; only then is the
\* after_delete chain started, once, and its context is the snapshot of the
\* entity as the before_delete hooks left it.
C10_RemovedThenAfterDelete ==
  \A t \in Threads :
    DeleteProceeds(t) =>
      /\ rq[t].instance_data = AfterHooks(rq[t].loaded, rq[t].before)
      /\ rq[t].pc = "remove" => rq[t].events = Empty /\ rq[t].id \in DOMAIN db
      /\ rq[t].pc = "call_after" => rq[t].events = <<"removed">> /\ rq[t].id \notin DOMAIN db
      /\ rq[t].pc \in {"after", "done"} =>
            /\ rq[t].events = <<"removed", "after_delete">>
            /\ rq[t].id \notin DOMAIN db
            /\ ex[t].op = "execute_hooks" /\ ex[t].hook_type = AFTER_DELETE
            /\ ex[t].model_name = Entity
            /\ ex[t].ctx0 = ("instance_data" :> AfterHooks(rq[t].loaded, rq[t].before))
            /\ IsPrefix(InvokedFuncs(ex[t]), Registered(regLog, AFTER_DELETE, Entity))
            /\ (rq[t].pc = "done" =>
                  InvokedFuncs(ex[t]) = Registered(regLog, AFTER_DELETE, Entity))

\* C10 witness: touch and add_x ran before the delete, the row is gone, and the
\* after_delete hook was called once with the snapshot carrying touch's title.
C10_Witness ==
  /\ rq["t1"].pc = "done" /\ rq["t1"].status = "204"
  /\ rq["t1"].before = <<"touch", "add_x">>
  /\ 1 \notin DOMAIN db
  /\ Len(ex["t1"].invoked) = 1
  /\ ex["t1"].invoked[1].context = ("instance_data" :> [title |-> "b", content |-> "x", deleted_at |-> "null"])

\* ------------------------------------------------- the schema validator
\* validate_all returned / raised in the run
ValidatorAccepted == gen.pc \in {"models", "routers", "done"}
ValidatorRejected ==
  gen.pc = "failed" /\ raised # Empty /\ raised[Len(raised)].kind # "malformed_document"

FieldsOf(n) == gen.field_map[gen.schemas[n].name]
RelationsOf(n) == gen.schemas[n].relations
SchemaNames == {gen.schemas[n].name : n \in 1..Len(gen.schemas)}

\* the four conditions of the claim, for the schema at place n
C11_ExactlyOnePrimary(n) ==
  Cardinality({k \in 1..Len(FieldsOf(n)) : FieldsOf(n)[k].primary}) = 1
C11_TypesAmongTheEleven(n) ==
  /\ Cardinality(VALID_TYPES) = 11
  /\ \A k \in 1..Len(FieldsOf(n)) : FieldsOf(n)[k].type \in VALID_TYPES
C11_NoRequiredNullable(n) ==
  \A k \in 1..Len(FieldsOf(n)) :
    FieldsOf(n)[k].primary \/ ~(FieldsOf(n)[k].required /\ FieldsOf(n)[k].nullable)
C11_TargetsExist(n) ==
  \A k \in 1..Len(RelationsOf(n)) : RelationsOf(n)[k].target \in SchemaNames
C11_RelationTypesSupported(n) ==
  \A k \in 1..Len(RelationsOf(n)) :
    RelationsOf(n)[k].type \in {"one_to_many", "many_to_one", "many_to_many"}

\* C11 as stated: validate_all accepts a schema set if and only if every schema
\* has exactly one primary field, only field types among the 11, no non-primary
\* field both required and nullable, and only relation targets naming a schema of
\* the set.
C11_AcceptsIffFourConditions ==
  ValidatorAccepted \/ ValidatorRejected =>
    (ValidatorAccepted <=>
       \A n \in 1..Len(gen.schemas) :
         /\ C11_ExactlyOnePrimary(n) /\ C11_TypesAmongTheEleven(n)
         /\ C11_NoRequiredNullable(n) /\ C11_TargetsExist(n))

\* C11 amended: validate_all accepts a schema set if and only if every schema
\* has exactly one primary field, only field types among the 11, no non-primary
\* field both required and nullable, only relations of one of the three relation
\* types, and only relation targets naming a schema of the full set, wherever in
\* the list that schema stands.
C11_AcceptsIffAllConditions ==
  ValidatorAccepted \/ ValidatorRejected =>
    (ValidatorAccepted <=>
       \A n \in 1..Len(gen.schemas) :
         /\ C11_ExactlyOnePrimary(n) /\ C11_TypesAmongTheEleven(n)
         /\ C11_NoRequiredNullable(n) /\ C11_TargetsExist(n)
         /\ C11_RelationTypesSupported(n))

\* C11 witness: a set is accepted whose first schema has a relation to the
\* schema defined after it and one to itself.
C11_Witness ==
  /\ ValidatorAccepted
  /\ Len(gen.schemas) = 2
  /\ RelationsOf(1) = <<Relation("one_to_many", "Post"), Relation("many_to_many", "User")>>
\* every check validate_all makes on the schema set when none fails, in the
\* order of its loops: per schema the two checks of each field, the primary-key
\* check and one check per relation; then one target check per relation
C12_SchemaChecks(n) ==
  Flatten([k \in 1..Len(FieldsOf(n)) |->
             <<[check |-> "field_type", s |-> n, k |-> k],
               [check |-> "required_nullable", s |-> n, k |-> k]>>])
  \o <<[check |-> "primary_key", s |-> n, k |-> 0]>>
  \o [k \in 1..Len(RelationsOf(n)) |-> [check |-> "relation", s |-> n, k |-> k]]

C12_CheckOrder ==
  Flatten([n \in 1..Len(gen.schemas) |-> C12_SchemaChecks(n)])
  \o Flatten([n \in 1..Len(gen.schemas) |->
                [k \in 1..Len(RelationsOf(n)) |-> [check |-> "target", s |-> n, k |-> k]]])

\* what the check c looks at violates its rule
C12_Violated(c) ==
  CASE c.check = "field_type" -> FieldsOf(c.s)[c.k].type \notin VALID_TYPES
    [] c.check = "required_nullable" ->
         FieldsOf(c.s)[c.k].required /\ FieldsOf(c.s)[c.k].nullable
         /\ ~FieldsOf(c.s)[c.k].primary
    [] c.check = "primary_key" -> ~C11_ExactlyOnePrimary(c.s)
    [] c.check = "relation" ->
         \/ RelationsOf(c.s)[c.k].type \notin {"one_to_many", "many_to_one", "many_to_many"}
         \/ RelationsOf(c.s)[c.k].target \in {"", Absent}
    [] c.check = "target" ->
         /\ RelationsOf(c.s)[c.k].target \notin {"", Absent}
         /\ RelationsOf(c.s)[c.k].target \notin SchemaNames

\* the error e names what the check c looked at
C12_Names(e, c) ==
  CASE c.check \in {"field_type", "required_nullable"} -> e.field = FieldsOf(c.s)[c.k].name
    [] c.check = "primary_key" -> e.schema = gen.schemas[c.s].name
    [] c.check = "relation" ->
         /\ e.schema = gen.schemas[c.s].name
         /\ e.kind = "invalid_relation_type" => e.type = RelationsOf(c.s)[c.k].type
    [] c.check = "target" ->
         e.schema = gen.schemas[c.s].name /\ e.target = RelationsOf(c.s)[c.k].target

\* C12: validate_all makes its checks in the order of its loops and raises at
\* the first one that is violated: every check made before it passed, at most
\* one error is ever raised, the error names the schema, field or relation the
\* failed check looked at, and once it is raised no further check is made and
\* nothing is written; a set is accepted only after every check was made.
C12_FailFastAttributable ==
  /\ [](checks # Empty =>
          /\ IsPrefix(checks, C12_CheckOrder)
          /\ \A i \in 1..(Len(checks) - 1) : ~C12_Violated(checks[i])
          /\ Len(raised) <= 1
          /\ (raised # Empty <=> C12_Violated(checks[Len(checks)]))
          /\ (raised # Empty => C12_Names(raised[1], checks[Len(checks)]))
          /\ (ValidatorAccepted => checks = C12_CheckOrder))
  /\ [][raised # Empty => checks' = checks /\ raised' = raised /\ files' = files]_vars

\* C12 witness: the first schema declares a relation with a dangling target
\* ahead of one with an unknown type; the error raised is the unknown type's
\* (every relation's type is checked before any target), after which the
\* validator made no further check.
C12_Witness ==
  /\ ValidatorRejected
  /\ RelationsOf(1) = <<Relation("many_to_one", "Ghost"), Relation("has_many", "Post")>>
  /\ raised = <<ValidationError("invalid_relation_type", "User", "", "has_many", Empty, "")>>
  /\ Len(checks) >= 4
\* no field of the schemas at places 1..n violates a field check
C13_NoFieldViolationUpTo(n) ==
  \A m \in 1..n : C11_TypesAmongTheEleven(m) /\ C11_NoRequiredNullable(m)

\* the schemas before place n pass every check validate_schema makes on them
C13_EarlierSchemasPass(n) ==
  \A m \in 1..(n - 1) :
    /\ C11_ExactlyOnePrimary(m)
    /\ C11_RelationTypesSupported(m)
    /\ \A k \in 1..Len(RelationsOf(m)) : RelationsOf(m)[k].target \notin {"", Absent}

C13_PrimaryNames(n) ==
  {FieldsOf(n)[k].name : k \in {j \in 1..Len(FieldsOf(n)) : FieldsOf(n)[j].primary}}

C13_ErrorNamesPrimaries(n) ==
  /\ ValidatorRejected
  /\ C13_PrimaryNames(n) \subseteq {raised[1].names[k] : k \in 1..Len(raised[1].names)}

C13_ErrorNamesSchema(n) ==
  ValidatorRejected /\ raised[1].schema = gen.schemas[n].name

\* C13 as stated: a schema with more than one primary field, and no field
\* violation before the primary-key check, makes validation fail with an error
\* naming every primary field; a schema with no primary field makes validation
\* fail with an error naming the schema.
C13_PrimaryKeyErrors ==
  ValidatorAccepted \/ ValidatorRejected =>
    \A n \in 1..Len(gen.schemas) :
      /\ (Cardinality(C13_PrimaryNames(n)) > 1 /\ C13_NoFieldViolationUpTo(n)
            => C13_ErrorNamesPrimaries(n))
      /\ (Cardinality(C13_PrimaryNames(n)) = 0 => C13_ErrorNamesSchema(n))

\* C13 amended: when no check made before a schema's primary-key check fails (no
\* field check of this schema or an earlier one, no primary-key or relation check
\* of an earlier schema), more than one primary field makes validation fail with
\* an error naming every one of them, and no primary field makes it fail with an
\* error naming the schema.
C13_PrimaryKeyErrorsWhenReached ==
  ValidatorAccepted \/ ValidatorRejected =>
    \A n \in 1..Len(gen.schemas) :
      C13_NoFieldViolationUpTo(n) /\ C13_EarlierSchemasPass(n) =>
        /\ (Cardinality(C13_PrimaryNames(n)) > 1 => C13_ErrorNamesPrimaries(n))
        /\ (Cardinality(C13_PrimaryNames(n)) = 0 => C13_ErrorNamesSchema(n))

\* C13 witness: after a sound first schema, the second one's two primary fields
\* are both named by the error.
C13_Witness ==
  /\ ValidatorRejected
  /\ Len(gen.schemas) = 2
  /\ raised = <<ValidationError("multiple_primary_keys", "Post", "", "", <<"id", "code">>, "")>>
\* ------------------------------------------------- the generated types
\* the router unit written for the schema at place n, when there is one
RouterOf(n) ==
  {files[i].content : i \in {j \in 1..Len(files) :
                               files[j].unit = "router" /\ files[j].name = gen.schemas[n].name}}

ModelUnitOf(n) ==
  {files[i].content : i \in {j \in 1..Len(files) :
                               files[j].unit = "model" /\ files[j].name = gen.schemas[n].name}}

\* the place of the field called name in the parser's field list of schema n
PlaceOf(n, name) == CHOOSE k \in 1..Len(FieldsOf(n)) : FieldsOf(n)[k].name = name

NonPrimaryNames(n) ==
  {FieldsOf(n)[k].name : k \in {j \in 1..Len(FieldsOf(n)) : ~FieldsOf(n)[j].primary}}

\* C14: the Create type of every generated router has one field per non-primary
\* field of its schema and no other (so never the primary field), each once, in
\* the order the parser lists them.
C14_CreateHasNonPrimaryFields ==
  \A n \in 1..Len(gen.schemas) : \A r \in RouterOf(n) :
    /\ {r.Create[i].name : i \in 1..Len(r.Create)} = NonPrimaryNames(n)
    /\ Len(r.Create) = Cardinality(NonPrimaryNames(n))
    /\ \A i, j \in 1..Len(r.Create) :
         i < j => PlaceOf(n, r.Create[i].name) < PlaceOf(n, r.Create[j].name)

\* C14 witness: a router was written for a schema whose primary field stands
\* between two other fields; its Create type has those two, in their order.
C14_Witness ==
  /\ gen.pc = "done" /\ Len(gen.schemas) >= 1
  /\ FieldNames(FieldsOf(1)) = <<"title", "id", "body">>
  /\ \E r \in RouterOf(1) : FieldNames(r.Create) = <<"title", "body">>

\* C15: the Update type of every generated router has a field for every
\* non-primary field of its schema, and every field of the Update type is
\* optional: its type admits None and it has the default None, so a payload
\* may leave it out, whatever the field's required and nullable flags.
C15_UpdateAllOptional ==
  \A n \in 1..Len(gen.schemas) : \A r \in RouterOf(n) :
    /\ NonPrimaryNames(n) \subseteq {r.Update[i].name : i \in 1..Len(r.Update)}
    /\ \A i \in 1..Len(r.Update) :
         r.Update[i].default = " = None" /\ r.Update[i].type.none

\* C15 witness: a router was written for a schema with a required, non-nullable
\* field, which is optional in its Update type.
C15_Witness ==
  /\ gen.pc = "done" /\ Len(gen.schemas) >= 1
  /\ \E k \in 1..Len(FieldsOf(1)) :
       /\ FieldsOf(1)[k].required /\ ~FieldsOf(1)[k].nullable /\ ~FieldsOf(1)[k].primary
       /\ \E r \in RouterOf(1) : \E i \in 1..Len(r.Update) :
            /\ r.Update[i].name = FieldsOf(1)[k].name
            /\ r.Update[i].default = " = None"
\* ------------------------------------------- the generated handlers
\* C16: a list request with skip < 0 or limit outside [1, 1000] is answered with
\* a request error without any query sent to storage; any other list request is
\* accepted and sends storage one query, with exactly the skip and limit given.
C16_PaginationBounds ==
  \A t \in Threads :
    rq[t].op = "list" /\ rq[t].pc = "done" =>
      IF rq[t].skip < 0 \/ rq[t].limit < 1 \/ rq[t].limit > 1000
        THEN rq[t].status = "422" /\ rq[t].queries = Empty /\ rq[t].result = Empty
        ELSE /\ rq[t].status = "200"
             /\ rq[t].queries = <<[skip |-> rq[t].skip, limit |-> rq[t].limit]>>

\* C16 witness: limit=1000 was accepted and reached storage as 1000, returning
\* the stored row.
C16_Witness ==
  /\ rq["t1"].op = "list" /\ rq["t1"].pc = "done" /\ rq["t1"].status = "200"
  /\ rq["t1"].limit = 1000
  /\ rq["t1"].queries = <<[skip |-> 0, limit |-> 1000]>>
  /\ Len(rq["t1"].result) = 1
\* C17: a get, update or delete request for an identifier that has no stored
\* row ends at once with 404: no hook chain is started for it, the handler does
\* nothing else, and the stored rows are what they were when it came in.
C17_NotFound ==
  \A t \in Threads :
    /\ rq[t].op \in {"get", "update", "delete"}
    /\ rq[t].pc # "idle"
    /\ rq[t].id \notin DOMAIN rq[t].db0
    => /\ rq[t].pc = "done" /\ rq[t].status = "404"
       /\ ex[t].pc = "idle" /\ ex[t].invoked = Empty
       /\ rq[t].before = Empty /\ rq[t].events = Empty
       /\ db = rq[t].db0

\* C17 witness: an update of an identifier that is not stored was answered 404
\* while before_update hooks were registered for the entity.
C17_Witness ==
  /\ rq["t1"].op = "update" /\ rq["t1"].status = "404"
  /\ rq["t1"].id \notin DOMAIN db
  /\ Len(GetHooks(hooks, BEFORE_UPDATE, Entity)) = 2
\* an update request past its commit
UpdateCommitted(t) ==
  /\ rq[t].op = "update" /\ rq[t].pc \in {"call_after", "after", "done"}
  /\ rq[t].events # Empty
  /\ rq[t].id \in DOMAIN db

ItemFields == DOMAIN NoItem

\* C18 as stated: after an update, every field whose key is absent from the
\* payload (as the before_update hooks left it) has in the stored row the value
\* it had before the request.
C18_AbsentKeepsRequestValue ==
  \A t \in Threads :
    UpdateCommitted(t) =>
      \A f \in ItemFields \ DOMAIN rq[t].update_data :
        db[rq[t].id][f] = rq[t].loaded[f]

\* C18 amended: the update handler assigns exactly the fields present in the
\* payload as the before_update hooks left it: each of them has the payload's
\* value in the stored row, and every field whose key is absent has the value
\* it had when the before_update chain returned -- the value it had before the
\* request, unless a before_update hook set it on the instance.
C18_AbsentKeepsValueAfterHooks ==
  \A t \in Threads :
    UpdateCommitted(t) =>
      /\ \A f \in ItemFields \ DOMAIN rq[t].update_data :
           db[rq[t].id][f] = AfterHooks(rq[t].loaded, rq[t].before)[f]
      /\ \A f \in ItemFields \cap DOMAIN rq[t].update_data :
           db[rq[t].id][f] = rq[t].update_data[f]

\* C18 witness: the payload set only content; the before_update hook touch set
\* the title on the instance; the stored row has the payload's content, touch's
\* title and its old deleted_at.
C18_Witness ==
  /\ UpdateCommitted("t1")
  /\ rq["t1"].update_data = ("content" :> "y")
  /\ rq["t1"].before = <<"touch">>
  /\ rq["t1"].loaded = [title |-> "a", content |-> "x", deleted_at |-> "null"]
  /\ db[1] = [title |-> "b", content |-> "y", deleted_at |-> "null"]
\* --------------------------------------------- the generation pipeline
\* every document of the directory is one the parser accepts, with a type for
\* every field and a type and target for every relation
C19_AllDocumentsWellFormed ==
  \A n \in 1..Len(gen.schema_dir) :
    /\ gen.schema_dir[n].ok
    /\ \A k \in 1..Len(gen.schema_dir[n].fields) : gen.schema_dir[n].fields[k].type # Absent
    /\ \A k \in 1..Len(gen.schema_dir[n].relations) :
         /\ gen.schema_dir[n].relations[k].type # Absent
         /\ gen.schema_dir[n].relations[k].target # Absent

\* the whole schema set passes every check of C12_CheckOrder
C19_SetValid ==
  \A i \in 1..Len(C12_CheckOrder) : ~C12_Violated(C12_CheckOrder[i])

\* C19: a unit is written only in a run in which every document of the
\* directory parsed and the whole set passed validation, with all of them in
\* the schema list; a run that failed -- on a malformed document or on a
\* validation error -- has written nothing, and when parse_all failed the run
\* holds no schema list at all.
C19_AllOrNothing ==
  /\ (files # Empty =>
        /\ C19_AllDocumentsWellFormed
        /\ gen.schemas = gen.schema_dir
        /\ C19_SetValid
        /\ raised = Empty)
  /\ (gen.pc = "failed" => files = Empty /\ raised # Empty)
  /\ (gen.pc = "failed" /\ (\E n \in 1..Len(gen.schema_dir) : ~gen.schema_dir[n].ok)
        => gen.schemas = Empty)

\* C19 witness: the second document is malformed; the run failed with the first
\* document parsed, no schema list and nothing written.
C19_Witness ==
  /\ gen.pc = "failed"
  /\ Len(gen.schema_dir) = 2 /\ gen.schema_dir[1].ok /\ ~gen.schema_dir[2].ok
  /\ Len(gen.parsed) = 1
  /\ gen.schemas = Empty /\ files = Empty
\* the places of a rendered class body holding lines of the given kinds
C20_Places(body, kinds) == {i \in 1..Len(body) : body[i].kind \in kinds}

C20_CrossCutting == {"created_at", "updated_at", "deleted_at"}

\* the cross-cutting columns the flags ask for are there, once each, timestamps
\* ahead of the soft-delete marker
C20_FixedOrder(schema, body) ==
  /\ Cardinality(C20_Places(body, {"created_at"})) = (IF schema.timestamps THEN 1 ELSE 0)
  /\ Cardinality(C20_Places(body, {"updated_at"})) = (IF schema.timestamps THEN 1 ELSE 0)
  /\ Cardinality(C20_Places(body, {"deleted_at"})) = (IF schema.soft_delete THEN 1 ELSE 0)
  /\ \A i \in C20_Places(body, {"created_at"}) :
       \A j \in C20_Places(body, {"updated_at"}) : j = i + 1
  /\ \A i \in C20_Places(body, {"updated_at"}) :
       \A j \in C20_Places(body, {"deleted_at"}) : j = i + 1

\* C20 as stated: in every rendered entity declaration the cross-cutting columns
\* come in the fixed order and after every declared field and every relation
\* line.
C20_CrossCuttingLast ==
  \A n \in 1..Len(gen.schemas) : \A body \in ModelUnitOf(n) :
    /\ C20_FixedOrder(gen.schemas[n], body)
    /\ \A i \in C20_Places(body, C20_CrossCutting) :
         \A j \in C20_Places(body, {"field", "foreign_key", "relationship"}) : j < i

\* C20 amended: in every rendered entity declaration the cross-cutting columns
\* come in the fixed order, after every declared field and before every relation
\* line.
C20_CrossCuttingBetween ==
  \A n \in 1..Len(gen.schemas) : \A body \in ModelUnitOf(n) :
    /\ C20_FixedOrder(gen.schemas[n], body)
    /\ \A i \in C20_Places(body, C20_CrossCutting) :
         /\ \A j \in C20_Places(body, {"field"}) : j < i
         /\ \A j \in C20_Places(body, {"foreign_key", "relationship"}) : i < j

\* C20 witness: a declaration was rendered for a schema with fields, both flags
\* set and a many_to_one relation: created_at, updated_at, deleted_at, then the
\* relation's foreign key.
C20_Witness ==
  /\ gen.pc = "done" /\ Len(gen.schemas) >= 1
  /\ gen.schemas[1].timestamps /\ gen.schemas[1].soft_delete
  /\ \E body \in ModelUnitOf(1) : \E i \in 1..(Len(body) - 3) :
       /\ i > 1 /\ body[i - 1].kind = "field"
       /\ body[i].kind = "created_at" /\ body[i + 1].kind = "updated_at"
       /\ body[i + 2].kind = "deleted_at" /\ body[i + 3].kind = "foreign_key"

\* the names of the declared-field lines of a rendered class body, in order
C21_FieldLineNames(body) == FieldNames(SelectSeq(body, LAMBDA l : l.kind = "field"))

C22_Rendered ==
  {[field |-> gen.field_code[i].field, line |-> gen.field_code[i].line] :
     i \in 1..Len(gen.field_code)}
  \cup UNION {UNION {{[field |-> FieldsOf(n)[k], line |-> m[k]] :
                        k \in 1..Len(FieldsOf(n))} : m \in ModelUnitOf(n)} :
                n \in 1..Len(gen.schemas)}

\* the column type the table of model_gen.py 10-22 fixes for each of the 11 types
C22_ColumnType ==
  {<<"string", "String">>, <<"integer", "Integer">>, <<"float", "Float">>,
   <<"boolean", "Boolean">>, <<"datetime", "DateTime">>, <<"date", "Date">>,
   <<"time", "Time">>, <<"uuid", "UUID">>, <<"text", "Text">>, <<"json", "JSON">>,
   <<"binary", "LargeBinary">>}

\* C22: every rendered field line is a column line (rendering never fails); its
\* column type is the one the 11-entry table fixes for the field's type, and
\* String for a type outside the table; it carries a length exactly when the
\* field is a string with a max_length, and then that length; and it carries
\* default=uuid.uuid4 exactly when the field is primary and of type uuid.
C22_TypeMapping ==
  \A c \in C22_Rendered :
    /\ c.line.kind = "field" /\ c.line.name = c.field.name
    /\ IF c.field.type \in VALID_TYPES
         THEN <<c.field.type, c.line.type.base>> \in C22_ColumnType
         ELSE c.line.type.base = "String"
    /\ c.line.type.length = (IF c.field.type = "string" THEN c.field.max_length ELSE 0)
    /\ (\E i \in 1..Len(c.line.args) : c.line.args[i] = "default=uuid.uuid4")
         <=> (c.field.primary /\ c.field.type = "uuid")

\* C22 witness: a primary field of a type outside the table was rendered by
\* itself as a String column without the uuid default.
C22_Witness ==
  /\ gen.pc = "field_code"
  /\ \E c \in C22_Rendered :
       /\ c.field.type = "decimal" /\ c.field.primary
       /\ c.line.kind = "field" /\ c.line.type = [base |-> "String", length |-> 0]
       /\ c.line.args = <<"primary_key=True">>

\* a create request that has committed and not yet returned
CreateCommitted(t) == rq[t].op = "create" /\ rq[t].pc \in {"call_after", "after"}

\* where a trace entry stands in the handler: the before_create hooks, the commit,
\* the after_create hooks
C23_Rank(entry) ==
  CASE entry.hook_type = BEFORE_CREATE -> 1
    [] entry.hook_type = "commit"      -> 2
    [] entry.hook_type = AFTER_CREATE  -> 3
    [] OTHER                           -> 0

\* no after_create hook before the commit, no before_create hook after it, one
\* commit at most, and none of it without the commit once an after_create hook ran
C23_InOrder(trace) ==
  /\ \A i, j \in 1..Len(trace) : i < j => C23_Rank(trace[i]) <= C23_Rank(trace[j])
  /\ \A i \in 1..Len(trace) : C23_Rank(trace[i]) \in {1, 2, 3}
  /\ Cardinality({i \in 1..Len(trace) : C23_Rank(trace[i]) = 2}) <= 1
  /\ (\E i \in 1..Len(trace) : C23_Rank(trace[i]) = 3)
       => \E i \in 1..Len(trace) : C23_Rank(trace[i]) = 2

\* the after_create chain is handed the row that was committed
C23_AfterGetsPersisted(t) ==
  /\ rq[t].id \in DOMAIN db
  /\ db[rq[t].id] = rq[t].loaded
  /\ (rq[t].pc = "after" => ex[t].ctx0 = ("instance" :> rq[t].id))

\* C23 as stated: in every create request the steps come in the order
\* before_create hooks, commit, after_create hooks; when the entity is committed
\* all the before_create hooks registered for the entity have run; the
\* after_create chain gets the persisted instance.
C23_AllBeforeCommitAfter ==
  \A t \in Threads :
    /\ rq[t].op = "create" => C23_InOrder(rq[t].trace)
    /\ CreateCommitted(t)
         => /\ rq[t].before = GetHooks(hooks, BEFORE_CREATE, Entity)
            /\ C23_AfterGetsPersisted(t)

\* C23 amended: as above, but the before_create hooks that have run when the
\* entity is committed are the registered ones up to and including the first
\* that returned a non-mapping value (all of them when none did), none of which
\* raised.
C23_ChainEndedCommitAfter ==
  \A t \in Threads :
    /\ rq[t].op = "create" => C23_InOrder(rq[t].trace)
    /\ CreateCommitted(t)
         => /\ IsPrefix(rq[t].before, GetHooks(hooks, BEFORE_CREATE, Entity))
            /\ \A k \in 1..Len(rq[t].before) :
                 /\ HookResult(rq[t].before[k]).kind # "raise"
                 /\ HookResult(rq[t].before[k]).kind = "value" => k = Len(rq[t].before)
            /\ (rq[t].before # GetHooks(hooks, BEFORE_CREATE, Entity)
                  => /\ rq[t].before # Empty
                     /\ HookResult(rq[t].before[Len(rq[t].before)]).kind = "value")
            /\ C23_AfterGetsPersisted(t)

\* C23 witness: a create request ran two before_create hooks, committed, and is
\* running its after_create chain, whose first hook has been invoked.
C23_Witness ==
  /\ rq["t1"].op = "create" /\ rq["t1"].pc = "after"
  /\ rq["t1"].trace =
       <<[hook_type |-> BEFORE_CREATE, func |-> "set_title"],
         [hook_type |-> BEFORE_CREATE, func |-> "replace_data"],
         Committed,
         [hook_type |-> AFTER_CREATE, func |-> "log_only"]>>
  /\ rq["t1"].id \in DOMAIN db /\ rq["t1"].id \notin DOMAIN rq["t1"].db0

\* the dict the `data` entry of the context refers to when the before_create
\* chain of thread t has ended
C24_DataAtEndOfChain(t) == Deref(rq[t], ex[t].context["data"])

\* C24: the entity a create request persists is built from the data as it
\* stands at the end of the before_create chain, that is from the dict the
\* context's `data` entry then refers to, whether the hooks edited the dict they
\* were handed or returned a mapping with a replacement `data` entry.
C24_PersistedFromFinalData ==
  \A t \in Threads :
    rq[t].op = "create" /\ rq[t].pc = "call_after"
      => db[rq[t].id] = NewItem(C24_DataAtEndOfChain(t))

WriteOps == {"create", "update", "delete"}

BeforeEvents == {BEFORE_CREATE, BEFORE_UPDATE, BEFORE_DELETE}

\* the places of a frame's trace where a hook was invoked that raises
RaisedAt(trace) ==
  {i \in 1..Len(trace) :
     trace[i].hook_type \in VALID_HOOKS /\ HookResult(trace[i].func).kind = "raise"}

\* the error execute_hooks raises when hook f raised: f's own, or the
\* AttributeError of the log line for a callable without __name__
C26_ErrorOf(f) == IF HasName(f) THEN HookResult(f).val ELSE "AttributeError"

\* C26: when a hook raises in a create, update or delete request, nothing
\* follows it in the request: no later hook of the chain, no later chain, no
\* commit; when it was a before_* hook nothing was applied, persisted or removed
\* by the request at all; the handler does not go on (it is still at the step
\* that called the chain, or over), and when it is over it has ended with the
\* error that execute_hooks raised.
C26_HookErrorAborts ==
  \A t \in Threads :
    rq[t].op \in WriteOps =>
      \A i \in RaisedAt(rq[t].trace) :
        /\ i = Len(rq[t].trace)
        /\ rq[t].pc \in {"before", "after", "done"}
        /\ rq[t].pc # "done" => ex[t].pc = "done" /\ ex[t].rkind = "error"
        /\ rq[t].pc = "done"
             => /\ rq[t].status = "error"
                /\ rq[t].error = C26_ErrorOf(rq[t].trace[i].func)
                /\ rq[t].result = Empty
        /\ rq[t].trace[i].hook_type \in BeforeEvents
             => /\ rq[t].events = Empty
                /\ rq[t].pc \in {"before", "done"}
                /\ \A j \in 1..Len(rq[t].trace) : rq[t].trace[j] # Committed

\* C26 witness: an update request ended with the KeyError of its second
\* before_update hook; the first had set a field on the entity; nothing was
\* applied or committed and no after_update hook ran although one is registered.
C26_Witness ==
  /\ rq["t1"].op = "update" /\ rq["t1"].pc = "done"
  /\ rq["t1"].trace = <<[hook_type |-> BEFORE_UPDATE, func |-> "touch"],
                        [hook_type |-> BEFORE_UPDATE, func |-> "boom"]>>
  /\ rq["t1"].status = "error" /\ rq["t1"].error = "KeyError"
  /\ GetHooks(hooks, AFTER_UPDATE, Entity) # Empty
  /\ db = rq["t1"].db0

\* C27: execute_hooks walks the registry's own list object without the lock, so
\* a register call for the same key that interleaves with it changes what it
\* invokes: a loop that ends by running off the end of the list has invoked the
\* key's list as it stands at that moment, hooks appended since the call began
\* included, and not the list as it was when the call began; and a call invokes
\* something beyond the list it began with only when a register call
\* interleaved with the executions.
C27_RegistrationRaces ==
  /\ [][\A t \in Threads :
          ex[t].pc = "loop" /\ ex'[t].pc = "done" /\ ex'[t].rkind = "context"
            => InvokedFuncs(ex'[t]) = GetHooks(hooks', ex[t].hook_type, ex[t].model_name)]_vars
  /\ [](\A t \in Threads :
          IsExec(ex[t]) /\ ~IsPrefix(InvokedFuncs(ex[t]), ex[t].start) => phase = "mixed")

\* C27 witness: an execution that began when one hook was registered for its key
\* has ended having invoked two: it picked up the hook that a register call of
\* the other thread appended while it ran.
C27_Witness ==
  /\ ex["t1"].pc = "done" /\ ex["t1"].rkind = "context"
  /\ ex["t1"].start = <<"add_x">>
  /\ InvokedFuncs(ex["t1"]) = <<"add_x", "partial_log">>
  /\ InvokedFuncs(ex["t1"]) # ex["t1"].start
  /\ \E n \in 1..Len(regLog) : regLog[n].thread = "t2" /\ regLog[n].func = "partial_log"

\* a delete request that has passed its before_delete chain and is about to
\* remove the row or has just removed it
DeleteRemoving(t) == rq[t].op = "delete" /\ rq[t].pc \in {"remove", "call_after"}

\* C28: the delete handler removes the row only after every before_delete hook
\* registered for the entity has been invoked and none of them returned the
\* abort value False: on a path to the removal no registered hook is skipped.
C28_RemovesOnlyAfterAllHooks ==
  \A t \in Threads :
    DeleteRemoving(t) =>
      /\ rq[t].before = GetHooks(hooks, BEFORE_DELETE, Entity)
      /\ \A k \in 1..Len(rq[t].before) :
           ~(HookResult(rq[t].before[k]).kind = "value"
               /\ HookResult(rq[t].before[k]).val = "False")

\* a create, update or delete request that has failed because a hook raised
FailedByHook(t) ==
  /\ rq[t].op \in WriteOps /\ rq[t].pc = "done" /\ rq[t].status = "error"
  /\ RaisedAt(rq[t].trace) # {}

\* the hook that raised was one of a before_* chain
FailedBefore(t) ==
  \A i \in RaisedAt(rq[t].trace) : rq[t].trace[i].hook_type \in BeforeEvents

\* what the request had committed before its after_* chain began
C29_CommittedChange(t) ==
  CASE rq[t].op = "create" ->
         /\ DOMAIN db = DOMAIN rq[t].db0 \cup {rq[t].id}
         /\ rq[t].id \notin DOMAIN rq[t].db0
         /\ db[rq[t].id] = NewItem(rq[t].data)
         /\ \A i \in DOMAIN rq[t].db0 : db[i] = rq[t].db0[i]
    [] rq[t].op = "update" ->
         /\ DOMAIN db = DOMAIN rq[t].db0
         /\ \A f \in ItemFields :
              db[rq[t].id][f] = IF f \in DOMAIN rq[t].update_data THEN rq[t].update_data[f]
                                ELSE AfterHooks(rq[t].db0[rq[t].id], rq[t].before)[f]
         /\ \A i \in DOMAIN db \ {rq[t].id} : db[i] = rq[t].db0[i]
    [] OTHER ->
         /\ DOMAIN db = DOMAIN rq[t].db0 \ {rq[t].id}
         /\ rq[t].id \in DOMAIN rq[t].db0
         /\ \A i \in DOMAIN db : db[i] = rq[t].db0[i]

\* C29 as stated: a create, update or delete request that failed because a hook
\* raised has left the stored rows exactly as they were when it came in.
C29_FailedLeavesStorage ==
  \A t \in Threads : FailedByHook(t) => db = rq[t].db0

\* C29 amended: a request that failed because a before_* hook raised has left
\* the stored rows exactly as they were when it came in, whatever the hooks
\* before the failing one had set on the entity; a request that failed because
\* an after_* hook raised has left its change committed: the created row is
\* stored, the update applied, the row removed.
C29_BeforeFailureLeavesStorage ==
  \A t \in Threads :
    FailedByHook(t) =>
      IF FailedBefore(t) THEN db = rq[t].db0 /\ rq[t].events = Empty
      ELSE C29_CommittedChange(t)

\* C29 witness: an update failed on the second before_update hook after the first
\* had set the title on the entity; the stored row has its old title.
C29_Witness ==
  /\ FailedByHook("t1") /\ FailedBefore("t1")
  /\ rq["t1"].op = "update"
  /\ rq["t1"].before = <<"touch", "boom">>
  /\ rq["t1"].item.title = "b"
  /\ db[1].title = "a" /\ db = rq["t1"].db0

\* C30: no step of get_hooks, execute_hooks or list_hooks changes the registry
\* (no key is created, no list changed); and a get_hooks or execute_hooks call
\* for a key without registrations, be it an unknown entity or an event name
\* outside the six, raises nothing: get_hooks returns an empty list and
\* execute_hooks returns the caller's context as it was, having invoked nothing.
C30_LookupsLeaveRegistry ==
  /\ [][(\E t \in Threads : ex'[t] # ex[t]) /\ rg' = rg => hooks' = hooks]_vars
  /\ [](\A t \in Threads :
          /\ ex[t].op = "get_hooks" /\ ~HasEntry(hooks, ex[t].hook_type, ex[t].model_name)
               => ex[t].rkind = "hooks" /\ ex[t].got = Empty
          /\ ex[t].op = "execute_hooks" /\ ex[t].pc = "done" /\ ex[t].start = Empty
               => /\ ex[t].rkind = "context"
                  /\ ex[t].ret = ex[t].ctx0
                  /\ ex[t].invoked = Empty)

\* C30 witness: with hooks registered under other keys, an execute_hooks call
\* for an entity nothing is registered for has returned its context, and the
\* registry has no entry for that entity.
C30_Witness ==
  /\ ex["t1"].op = "execute_hooks" /\ ex["t1"].pc = "done"
  /\ ex["t1"].model_name = "User" /\ ex["t1"].hook_type = AFTER_CREATE
  /\ ex["t1"].ret = ("x" :> 0) /\ ex["t1"].invoked = Empty
  /\ "User" \notin DOMAIN hooks
  /\ GetHooks(hooks, BEFORE_DELETE, "Post") # Empty

====
